---- MODULE Spec2Model ----
(***************************************************************************)
(* Todo chatbot backend: the task store with its MCP tool handlers         *)
(* (add_task, list_tasks, complete_task, update_task), the recurrence      *)
(* engine, the message service, and the stateless chat turn (route, chat   *)
(* service, agent).                                                        *)
(*                                                                         *)
(* Specifications: Spec (tool handlers on the task store), SpecRace        *)
(* (interleaved complete_task executions), SpecRecurrence (the recurrence  *)
(* engine called on its own), SpecMessages (the message service called on  *)
(* its own), SpecChat (chat requests step by step), SpecChatLive (the     *)
(* same steps under fairness) and SpecRest (the REST completion endpoint   *)
(* beside the complete_task tool).                                         *)
(*                                                                         *)
(* Dates are day numbers counted from 2024-01-01 (a Monday, day 0); the    *)
(* time of day is carried unchanged by every operation of the recurrence   *)
(* engine and is left out.                                                 *)
(***************************************************************************)
EXTENDS Integers, Sequences, FiniteSets, TLC

(***************************************************************************)
(* Bounds of the model.                                                    *)
(***************************************************************************)
MaxTasks == 3
MaxClock == 1
MaxMessages == 4
MaxChatTasks == 2
MaxInterval == 25
MaxBaseDate == 60

(***************************************************************************)
(* Python's None for the optional integer columns and for optional text.   *)
(***************************************************************************)
None == -1
NoText == "None"

Users == {"u1", "u2"}

(***************************************************************************)
(* Calendar (datetime / calendar.monthrange).                              *)
(***************************************************************************)
IsLeap(y) == (y % 4 = 0 /\ y % 100 # 0) \/ y % 400 = 0

DaysInMonth(y, m) ==
    IF m = 2 THEN (IF IsLeap(y) THEN 29 ELSE 28)
    ELSE IF m \in {4, 6, 9, 11} THEN 30 ELSE 31

DaysInYear(y) == IF IsLeap(y) THEN 366 ELSE 365

RECURSIVE DaysBeforeYear(_)
DaysBeforeYear(y) ==
    IF y <= 2024 THEN 0 ELSE DaysBeforeYear(y - 1) + DaysInYear(y - 1)

RECURSIVE DaysBeforeMonth(_, _)
DaysBeforeMonth(y, m) ==
    IF m <= 1 THEN 0 ELSE DaysBeforeMonth(y, m - 1) + DaysInMonth(y, m - 1)

\* datetime(y, m, d) as a day number
MkDate(y, m, d) == DaysBeforeYear(y) + DaysBeforeMonth(y, m) + (d - 1)

YearOf(n) ==
    CHOOSE y \in 2024..2030 :
        DaysBeforeYear(y) <= n /\ n < DaysBeforeYear(y + 1)

MonthOf(n) ==
    LET y == YearOf(n)
        r == n - DaysBeforeYear(y)
    IN  CHOOSE m \in 1..12 :
            DaysBeforeMonth(y, m) <= r /\ r < DaysBeforeMonth(y, m) + DaysInMonth(y, m)

DayOf(n) ==
    LET y == YearOf(n) IN n - DaysBeforeYear(y) - DaysBeforeMonth(y, MonthOf(n)) + 1

\* datetime.weekday(): 0 = Monday
Weekday(n) == n % 7

(***************************************************************************)
(* Recurrence engine (utils/recurrence.py).                                *)
(***************************************************************************)
Patterns == {"daily", "weekly", "monthly"}

_calculate_daily_recurrence_from_tomorrow(base_date, interval) == base_date + 1 + interval

_calculate_daily_recurrence(base_date, interval) == base_date + interval

\* the weekday's first occurrence after the base date, whatever the interval
_calculate_weekly_recurrence_first_match(base_date, interval, day_of_week) ==
    IF day_of_week # None
    THEN LET d0 == day_of_week - Weekday(base_date)
         IN  base_date + (IF d0 <= 0 THEN d0 + 7 * interval ELSE d0)
    ELSE base_date + 7 * interval

_calculate_weekly_recurrence(base_date, interval, day_of_week) ==
    IF day_of_week # None
    THEN LET d0 == day_of_week - Weekday(base_date)
             days_ahead == IF d0 <= 0 THEN d0 + 7 * interval
                           ELSE IF interval > 1 THEN d0 + 7 * (interval - 1)
                           ELSE d0
         IN  base_date + days_ahead
    ELSE base_date + 7 * interval

\* a target day past the month's end running over into the next month
_calculate_monthly_recurrence_overflowing(base_date, interval, day_of_month) ==
    LET total == MonthOf(base_date) + interval
        next_month == ((total - 1) % 12) + 1
        next_year == YearOf(base_date) + ((total - 1) \div 12)
        target_day == IF day_of_month # None THEN day_of_month ELSE DayOf(base_date)
    IN  MkDate(next_year, next_month, target_day)

\* a variant that stays on the month's last day once the base date is one
_calculate_monthly_recurrence_month_end(base_date, interval, day_of_month) ==
    LET total == MonthOf(base_date) + interval
        next_month == ((total - 1) % 12) + 1
        next_year == YearOf(base_date) + ((total - 1) \div 12)
        last_day == DaysInMonth(next_year, next_month)
        at_end == DayOf(base_date) = DaysInMonth(YearOf(base_date), MonthOf(base_date))
        target_day == IF day_of_month # None THEN day_of_month
                      ELSE IF at_end THEN last_day
                      ELSE DayOf(base_date)
    IN  IF target_day >= 1 /\ target_day <= last_day
        THEN MkDate(next_year, next_month, target_day)
        ELSE MkDate(next_year, next_month, last_day)

_calculate_monthly_recurrence(base_date, interval, day_of_month) ==
    LET total == MonthOf(base_date) + interval
        next_month == ((total - 1) % 12) + 1
        next_year == YearOf(base_date) + ((total - 1) \div 12)
        target_day == IF day_of_month # None THEN day_of_month ELSE DayOf(base_date)
        last_day == DaysInMonth(next_year, next_month)
    IN  IF target_day >= 1 /\ target_day <= last_day
        THEN MkDate(next_year, next_month, target_day)
        ELSE MkDate(next_year, next_month, last_day)

\* "raises" is TRUE for the ValueError of an unknown pattern
calculate_next_due_date(current_due_date, pattern, interval, dow, dom, now) ==
    LET base_date == IF current_due_date = None THEN now + 1 ELSE current_due_date
    IN  IF pattern = "daily"
        THEN [raises |-> FALSE, date |-> _calculate_daily_recurrence(base_date, interval)]
        ELSE IF pattern = "weekly"
        THEN [raises |-> FALSE, date |-> _calculate_weekly_recurrence(base_date, interval, dow)]
        ELSE IF pattern = "monthly"
        THEN [raises |-> FALSE, date |-> _calculate_monthly_recurrence(base_date, interval, dom)]
        ELSE [raises |-> TRUE, date |-> None]

\* the end date itself still counted as inside the recurrence
should_create_next_instance_through_end_date(recurrence_end_date, recurrence_active, now) ==
    IF ~recurrence_active THEN FALSE
    ELSE IF recurrence_end_date # None /\ now > recurrence_end_date THEN FALSE
    ELSE TRUE

should_create_next_instance(recurrence_end_date, recurrence_active, now) ==
    IF ~recurrence_active THEN FALSE
    ELSE IF recurrence_end_date # None /\ now >= recurrence_end_date THEN FALSE
    ELSE TRUE

(***************************************************************************)
(* ISO date strings as the tool arguments carry them: <<>> is an absent    *)
(* argument (None), <<y, m, d>> the text "y-m-d".                          *)
(***************************************************************************)
NoDateStr == <<>>

\* datetime.fromisoformat: ValueError unless the text names a calendar day
IsoParses(s) ==
    /\ Len(s) = 3
    /\ s[1] \in 2024..2030
    /\ s[2] \in 1..12
    /\ s[3] \in 1..DaysInMonth(s[1], s[2])

fromisoformat(s) == MkDate(s[1], s[2], s[3])

isoformat(n) == IF n = None THEN NoDateStr ELSE <<YearOf(n), MonthOf(n), DayOf(n)>>

(***************************************************************************)
(* State.                                                                  *)
(*   tasks   the tasks table; a task's id is its position                  *)
(*   now     the wall clock (datetime.now), in days                        *)
(*   procs   the complete_task executions in flight, one per worker        *)
(*   last    the envelope the latest complete_task execution returned      *)
(*   convs   the conversations table: the owner of each conversation id    *)
(*   msgs    the messages table in insertion order                         *)
(*   turns   the chat requests in flight, one per worker                   *)
(***************************************************************************)
VARIABLES tasks, now, procs, last, convs, msgs, turns

vars == <<tasks, now, procs, last, convs, msgs, turns>>
taskVars == <<tasks, now, procs, last>>
chatVars == <<convs, msgs, turns>>

Procs == {1, 2}

Priorities == {"high", "medium", "low"}
Categories == {"work", "home", "study", "personal", "shopping", "health", "fitness"}

(***************************************************************************)
(* Pydantic input schemas (mcp_server/schemas.py): TRUE when the model     *)
(* validates, FALSE for the ValidationError (a ValueError) it raises.      *)
(***************************************************************************)
\* validate_title: min_length=1, max_length=200, not blank after strip()
TitleOk(t) == Len(t) >= 1 /\ Len(t) <= 200 /\ t \notin {" ", "  "}

AddTaskInput(a) ==
    /\ TitleOk(a.title)
    /\ a.priority \in Priorities
    /\ a.category = NoText \/ a.category \in Categories
    /\ a.due_date = NoDateStr \/ IsoParses(a.due_date)
    /\ a.recurrence_pattern = NoText \/ a.recurrence_pattern \in Patterns
    /\ a.recurrence_interval >= 1
    /\ a.recurrence_end_date = NoDateStr \/ IsoParses(a.recurrence_end_date)

CompleteTaskInput(task_id) == task_id > 0

\* a schema that accepts any category
UpdateTaskInputAnyCategory(a) ==
    /\ a.task_id > 0
    /\ a.title = NoText \/ TitleOk(a.title)
    /\ a.priority = NoText \/ a.priority \in Priorities
    /\ a.due_date = NoDateStr \/ IsoParses(a.due_date)

UpdateTaskInput(a) ==
    /\ a.task_id > 0
    /\ a.title = NoText \/ TitleOk(a.title)
    /\ a.priority = NoText \/ a.priority \in Priorities
    /\ a.category = NoText \/ a.category \in Categories
    /\ a.due_date = NoDateStr \/ IsoParses(a.due_date)

(***************************************************************************)
(* Result envelopes.                                                       *)
(***************************************************************************)
NoResult == [success |-> FALSE, error_code |-> "PENDING"]

Failure(code) == [success |-> FALSE, error_code |-> code]

(***************************************************************************)
(* select(Task).where(Task.id == task_id, Task.user_id == user_id):        *)
(* the id of the row found, 0 for scalar_one_or_none() = None.             *)
(***************************************************************************)
SelectTaskAnyOwner(ts, task_id, user_id) ==
    IF task_id \in DOMAIN ts THEN task_id ELSE 0

SelectTask(ts, task_id, user_id) ==
    IF task_id \in DOMAIN ts /\ ts[task_id].user_id = user_id THEN task_id ELSE 0

(***************************************************************************)
(* add_task.execute                                                        *)
(***************************************************************************)
NewTask(ts, a) ==
    [id |-> Len(ts) + 1,
     user_id |-> a.user_id,
     title |-> a.title,
     completed |-> FALSE,
     priority |-> a.priority,
     category |-> a.category,
     due_date |-> IF a.due_date # NoDateStr THEN fromisoformat(a.due_date) ELSE None,
     is_recurring |-> a.is_recurring,
     recurrence_pattern |-> a.recurrence_pattern,
     recurrence_interval |-> a.recurrence_interval,
     recurrence_end_date |->
        IF a.recurrence_end_date # NoDateStr THEN fromisoformat(a.recurrence_end_date)
        ELSE None,
     recurrence_day_of_week |-> None,
     recurrence_day_of_month |-> None,
     parent_recurrence_id |-> None,
     recurrence_active |-> IF a.is_recurring THEN TRUE ELSE FALSE]

add_task_execute(ts, a) ==
    IF a.due_date # NoDateStr /\ ~IsoParses(a.due_date)
    THEN [tasks |-> ts, result |-> Failure("VALIDATION_ERROR")]
    ELSE IF a.recurrence_end_date # NoDateStr /\ ~IsoParses(a.recurrence_end_date)
    THEN [tasks |-> ts, result |-> Failure("VALIDATION_ERROR")]
    ELSE IF ~AddTaskInput(a)
    THEN [tasks |-> ts, result |-> Failure("VALIDATION_ERROR")]
    ELSE LET new_task == NewTask(ts, a)
         IN  [tasks |-> Append(ts, new_task),
              result |-> [success |-> TRUE,
                          error_code |-> NoText,
                          task_id |-> new_task.id,
                          title |-> new_task.title,
                          is_recurring |-> new_task.is_recurring,
                          recurrence_pattern |-> new_task.recurrence_pattern]]

(***************************************************************************)
(* list_tasks.execute: the caller's rows under the status filter, newest   *)
(* first (created_at desc).                                                *)
(***************************************************************************)
ListQuery(ts, user_id, status) ==
    {i \in DOMAIN ts :
        /\ ts[i].user_id = user_id
        /\ status = "pending" => ~ts[i].completed
        /\ status = "completed" => ts[i].completed}

RECURSIVE Descending(_)
Descending(S) ==
    IF S = {} THEN <<>>
    ELSE LET m == CHOOSE x \in S : \A y \in S : y <= x
         IN  <<m>> \o Descending(S \ {m})

list_tasks_execute(ts, user_id, status) ==
    IF status \notin {"all", "pending", "completed"}
    THEN Failure("VALIDATION_ERROR")
    ELSE LET rows == Descending(ListQuery(ts, user_id, status))
         IN  [success |-> TRUE,
              error_code |-> NoText,
              tasks |-> [k \in DOMAIN rows |->
                            [task_id |-> ts[rows[k]].id,
                             title |-> ts[rows[k]].title,
                             status |-> IF ts[rows[k]].completed THEN "completed"
                                        ELSE "pending"]],
              count |-> Len(rows)]

(***************************************************************************)
(* update_task.execute                                                     *)
(***************************************************************************)
update_task_execute(ts, a) ==
    IF a.due_date # NoDateStr /\ ~IsoParses(a.due_date)
    THEN [tasks |-> ts, result |-> Failure("VALIDATION_ERROR")]
    ELSE IF ~UpdateTaskInput(a)
    THEN [tasks |-> ts, result |-> Failure("VALIDATION_ERROR")]
    ELSE LET id == SelectTask(ts, a.task_id, a.user_id)
         IN  IF id = 0
             THEN [tasks |-> ts, result |-> Failure("NOT_FOUND")]
             ELSE LET t == ts[id]
                      u == [t EXCEPT
                              !.title = IF a.title # NoText THEN a.title ELSE @,
                              !.priority = IF a.priority # NoText THEN a.priority ELSE @,
                              !.category = IF a.category # NoText THEN a.category ELSE @,
                              !.due_date = IF a.due_date # NoDateStr
                                           THEN fromisoformat(a.due_date) ELSE @]
                  IN  [tasks |-> [ts EXCEPT ![id] = u],
                       result |-> [success |-> TRUE,
                                   error_code |-> NoText,
                                   task_id |-> u.id,
                                   title |-> u.title]]

(***************************************************************************)
(* create_next_recurrence_instance: the column values of the next          *)
(* instance of a completed task ("raises" when the pattern is unknown).    *)
(***************************************************************************)
ParentLinkToCompleted(task) == task.id

ParentLink(task) ==
    IF task.parent_recurrence_id # None /\ task.parent_recurrence_id # 0
    THEN task.parent_recurrence_id
    ELSE task.id

create_next_recurrence_instance(task, clock) ==
    LET next_due_date ==
            calculate_next_due_date(task.due_date, task.recurrence_pattern,
                                    task.recurrence_interval,
                                    task.recurrence_day_of_week,
                                    task.recurrence_day_of_month, clock)
    IN  [raises |-> next_due_date.raises,
         data |-> [user_id |-> task.user_id,
                   title |-> task.title,
                   completed |-> FALSE,
                   priority |-> task.priority,
                   category |-> task.category,
                   due_date |-> next_due_date.date,
                   is_recurring |-> TRUE,
                   recurrence_pattern |-> task.recurrence_pattern,
                   recurrence_interval |-> task.recurrence_interval,
                   recurrence_end_date |-> task.recurrence_end_date,
                   recurrence_day_of_week |-> task.recurrence_day_of_week,
                   recurrence_day_of_month |-> task.recurrence_day_of_month,
                   parent_recurrence_id |-> ParentLink(task),
                   recurrence_active |-> TRUE]]

(***************************************************************************)
(* complete_task.execute, in the three steps its awaits cut it into:       *)
(*   read    validate, select the caller's row, return early when it is    *)
(*           missing or already completed                                  *)
(*   commit  set completed, commit, refresh the row                        *)
(*   spawn   decide on the next instance from the refreshed row, insert    *)
(*           it, commit, build the response                                *)
(***************************************************************************)
NoTask == [id |-> 0]

\* a read step without the early return for a completed row
complete_read_again(ts, user_id, task_id) ==
    IF ~CompleteTaskInput(task_id)
    THEN [found |-> FALSE, task |-> NoTask, result |-> Failure("VALIDATION_ERROR")]
    ELSE LET id == SelectTask(ts, task_id, user_id)
         IN  IF id = 0
             THEN [found |-> FALSE, task |-> NoTask, result |-> Failure("NOT_FOUND")]
             ELSE [found |-> TRUE, task |-> ts[id], result |-> NoResult]

complete_read(ts, user_id, task_id) ==
    IF ~CompleteTaskInput(task_id)
    THEN [found |-> FALSE, task |-> NoTask, result |-> Failure("VALIDATION_ERROR")]
    ELSE LET id == SelectTask(ts, task_id, user_id)
         IN  IF id = 0
             THEN [found |-> FALSE, task |-> NoTask, result |-> Failure("NOT_FOUND")]
             ELSE IF ts[id].completed
             THEN [found |-> FALSE, task |-> NoTask,
                   result |-> [success |-> TRUE,
                               error_code |-> NoText,
                               task_id |-> id,
                               status |-> "completed",
                               next_task_id |-> None,
                               next_task_due_date |-> NoDateStr,
                               message |-> "Task already completed"]]
             ELSE [found |-> TRUE, task |-> ts[id], result |-> NoResult]

\* The UPDATE writes the one dirty column; refresh() reloads the whole row.
complete_commit(ts, task) ==
    LET ts2 == [ts EXCEPT ![task.id].completed = TRUE]
    IN  [tasks |-> ts2, task |-> ts2[task.id]]

SpawnWantedWithoutFlag(task, clock) ==
    /\ task.recurrence_pattern # NoText
    /\ should_create_next_instance(task.recurrence_end_date, TRUE, clock)

\* a spawn check that does not look at the end date
SpawnWantedPastEnd(task, clock) ==
    /\ task.is_recurring
    /\ task.recurrence_pattern # NoText
    /\ task.recurrence_active

SpawnWanted(task, clock) ==
    /\ task.is_recurring
    /\ task.recurrence_pattern # NoText
    /\ should_create_next_instance(task.recurrence_end_date, task.recurrence_active, clock)

\* complete_spawn behind a uniqueness constraint on (root, due date)
complete_spawn_unique(ts, task, clock) ==
    LET next == create_next_recurrence_instance(task, clock)
        taken == \E j \in DOMAIN ts :
                    /\ ts[j].parent_recurrence_id = next.data.parent_recurrence_id
                    /\ ts[j].due_date = next.data.due_date
        spawned == SpawnWanted(task, clock) /\ ~next.raises /\ ~taken
        next_task == [id |-> Len(ts) + 1] @@ next.data
    IN  [tasks |-> IF spawned THEN Append(ts, next_task) ELSE ts,
         result |-> [success |-> TRUE,
                     error_code |-> NoText,
                     task_id |-> task.id,
                     status |-> "completed",
                     next_task_id |-> IF spawned THEN next_task.id ELSE None,
                     next_task_due_date |->
                        IF spawned THEN isoformat(next_task.due_date) ELSE NoDateStr,
                     message |-> "Task completed"]]

complete_spawn(ts, task, clock) ==
    LET next == create_next_recurrence_instance(task, clock)
        spawned == SpawnWanted(task, clock) /\ ~next.raises
        next_task == [id |-> Len(ts) + 1] @@ next.data
        next_task_id == IF spawned THEN next_task.id ELSE None
        message ==
            IF next_task_id # None /\ next_task_id # 0
            THEN "Task completed. Next instance created"
            ELSE IF task.is_recurring /\ ~task.recurrence_active
            THEN "Task completed. Recurrence is paused."
            ELSE IF task.is_recurring /\ task.recurrence_end_date # None
            THEN "Task completed. Recurrence has ended."
            ELSE "Task completed successfully"
    IN  [tasks |-> IF spawned THEN Append(ts, next_task) ELSE ts,
         result |-> [success |-> TRUE,
                     error_code |-> NoText,
                     task_id |-> task.id,
                     status |-> "completed",
                     next_task_id |-> next_task_id,
                     next_task_due_date |->
                        IF spawned THEN isoformat(next_task.due_date) ELSE NoDateStr,
                     message |-> message]]

\* One execution run without interleaving (a tool call inside a chat turn).
complete_task_execute(ts, user_id, task_id, clock) ==
    LET r == complete_read(ts, user_id, task_id)
    IN  IF ~r.found
        THEN [tasks |-> ts, result |-> r.result]
        ELSE LET c == complete_commit(ts, r.task)
             IN  complete_spawn(c.tasks, c.task, clock)

(***************************************************************************)
(* delete_task.execute: the handler as it stands answers success and       *)
(* reads or writes no row.                                                 *)
(***************************************************************************)
delete_task_execute(ts, user_id, task_id) ==
    [tasks |-> ts, result |-> [success |-> TRUE, task_id |-> task_id]]

(***************************************************************************)
(* Arguments the tool handlers are called with.                            *)
(***************************************************************************)
BaseAdd ==
    [user_id |-> "u1", title |-> "a", priority |-> "medium", category |-> NoText,
     due_date |-> NoDateStr, is_recurring |-> FALSE, recurrence_pattern |-> NoText,
     recurrence_interval |-> 1, recurrence_end_date |-> NoDateStr]

\* daily from Jan 10, no end date
DailyAdd ==
    [BaseAdd EXCEPT !.due_date = <<2024, 1, 10>>, !.is_recurring = TRUE,
                    !.recurrence_pattern = "daily"]

ValidAddArgs ==
    { DailyAdd,
      \* monthly from Jan 31, recurrence ending on Jan 2
      [BaseAdd EXCEPT !.user_id = "u2", !.due_date = <<2024, 1, 31>>,
                      !.is_recurring = TRUE, !.recurrence_pattern = "monthly",
                      !.recurrence_end_date = <<2024, 1, 2>>],
      \* not recurring, yet with a pattern
      [BaseAdd EXCEPT !.user_id = "u2", !.due_date = <<2024, 1, 10>>,
                      !.recurrence_pattern = "weekly", !.category = "work"],
      \* recurring without a pattern, no due date
      [BaseAdd EXCEPT !.is_recurring = TRUE] }

\* a title of 201 characters
LongTitle == "aaaaaaaaaaaaaaaaaaaaaaaaaaaaaaaaaaaaaaaaaaaaaaaaaaaaaaaaaaaaaaaaaaaaaaaaaaaaaaaaaaaaaaaaaaaaaaaaaaaaaaaaaaaaaaaaaaaaaaaaaaaaaaaaaaaaaaaaaaaaaaaaaaaaaaaaaaaaaaaaaaaaaaaaaaaaaaaaaaaaaaaaaaaaaaaaaaaaaaaaa"

InvalidAddArgs ==
    { [BaseAdd EXCEPT !.priority = "urgent"],
      [BaseAdd EXCEPT !.due_date = <<2024, 2, 30>>],
      [BaseAdd EXCEPT !.category = "errands"],
      [DailyAdd EXCEPT !.recurrence_pattern = "yearly"],
      [DailyAdd EXCEPT !.recurrence_interval = 0],
      [DailyAdd EXCEPT !.recurrence_end_date = <<2024, 13, 1>>],
      [BaseAdd EXCEPT !.title = ""],
      [BaseAdd EXCEPT !.title = "  "],
      [BaseAdd EXCEPT !.title = LongTitle] }

AddArgs == ValidAddArgs \cup InvalidAddArgs

TaskIds == 0..MaxTasks

\* ids update_task is called with: none, the first row, a later row
UpdateIds == 0..2

UpdateFields(user_id, task_id, f) ==
    [user_id |-> user_id, task_id |-> task_id, title |-> f[1], priority |-> f[2],
     category |-> f[3], due_date |-> f[4]]

\* calls of u1 on the first row with one defective field each
InvalidUpdateArgs ==
    { UpdateFields("u1", 1, f) :
        f \in { <<NoText, NoText, "errands", NoDateStr>>,
                <<NoText, NoText, NoText, <<2024, 2, 30>> >>,
                <<"  ", NoText, NoText, NoDateStr>>,
                <<LongTitle, NoText, NoText, NoDateStr>> } }

UpdateArgs ==
    { UpdateFields(u, i, f) :
        u \in Users, i \in UpdateIds,
        f \in { <<"b", "high", NoText, NoDateStr>>,
                <<NoText, "urgent", NoText, NoDateStr>> } }
      \cup InvalidUpdateArgs

Statuses == {"all", "pending", "completed"}

\* complete_task executions in flight that may still insert a row
InFlight == Cardinality({p \in Procs : procs[p].pc \in {"read", "committed"}})

IdleProc == [pc |-> "idle", user_id |-> NoText, task_id |-> 0, task |-> NoTask,
             result |-> NoResult]

(***************************************************************************)
(* Texts. A text is told apart by the script it is written in and by what  *)
(* it says; translation changes the script and keeps what is said.         *)
(***************************************************************************)
Text(script, says) == [script |-> script, says |-> says]

NoContent == Text("none", "none")
EnglishMessage == Text("latin", "request")
UrduMessage == Text("urdu", "request")
Reply == Text("latin", "reply")
Apology == Text("latin", "apology")
\* str(e) of an exception
RawError == Text("latin", "error")

\* LanguageDetector.detect: by the share of characters of each script
detect(text) ==
    IF text.script = "cjk" THEN "zh"
    ELSE IF text.script = "urdu" THEN "ur"
    ELSE IF text.script = "arabic" THEN "ar"
    ELSE IF text.script = "turkish" THEN "tr"
    ELSE "en"

ScriptOf(lang) ==
    IF lang = "ur" THEN "urdu"
    ELSE IF lang = "ar" THEN "arabic"
    ELSE IF lang = "zh" THEN "cjk"
    ELSE IF lang = "tr" THEN "turkish"
    ELSE "latin"

\* TranslationService: "fails" is an exception inside the upstream call
translate_to_english(text, source_lang, fails) ==
    IF source_lang = "en" THEN text
    ELSE IF fails THEN text
    ELSE Text("latin", text.says)

\* an outbound translation that has nothing to return when the call raises
translate_from_english_or_nothing(text, target_lang, fails) ==
    IF target_lang = "en" THEN text
    ELSE IF fails THEN NoContent
    ELSE Text(ScriptOf(target_lang), text.says)

translate_from_english(text, target_lang, fails) ==
    IF target_lang = "en" THEN text
    ELSE IF fails THEN text
    ELSE Text(ScriptOf(target_lang), text.says)

(***************************************************************************)
(* Conversation service and message service.                               *)
(***************************************************************************)
\* get_conversation: the row, None (0), or the 403 it raises
get_conversation_unchecked(cs, conversation_id, user_id) ==
    IF conversation_id \notin DOMAIN cs THEN [forbidden |-> FALSE, id |-> 0]
    ELSE [forbidden |-> FALSE, id |-> conversation_id]

get_conversation(cs, conversation_id, user_id) ==
    IF conversation_id \notin DOMAIN cs THEN [forbidden |-> FALSE, id |-> 0]
    ELSE IF cs[conversation_id] # user_id THEN [forbidden |-> TRUE, id |-> 0]
    ELSE [forbidden |-> FALSE, id |-> conversation_id]

\* a variant that hands back the conversation under the id the request named
get_or_create_conversation_under_named_id(cs, user_id, conversation_id) ==
    LET got == IF conversation_id # 0
               THEN get_conversation(cs, conversation_id, user_id)
               ELSE [forbidden |-> FALSE, id |-> 0]
    IN  IF got.forbidden THEN [forbidden |-> TRUE, convs |-> cs, id |-> 0]
        ELSE IF got.id # 0 THEN [forbidden |-> FALSE, convs |-> cs, id |-> got.id]
        ELSE [forbidden |-> FALSE, convs |-> Append(cs, user_id),
              id |-> IF conversation_id # 0 THEN conversation_id ELSE Len(cs) + 1]

\* get_or_create_conversation: conversation_id 0 stands for None
get_or_create_conversation(cs, user_id, conversation_id) ==
    LET got == IF conversation_id # 0
               THEN get_conversation(cs, conversation_id, user_id)
               ELSE [forbidden |-> FALSE, id |-> 0]
    IN  IF got.forbidden THEN [forbidden |-> TRUE, convs |-> cs, id |-> 0]
        ELSE IF got.id # 0 THEN [forbidden |-> FALSE, convs |-> cs, id |-> got.id]
        ELSE [forbidden |-> FALSE, convs |-> Append(cs, user_id), id |-> Len(cs) + 1]

store_message_on_top(ms, conversation_id, user_id, role, content) ==
    <<[conversation_id |-> conversation_id, user_id |-> user_id,
       role |-> role, content |-> content]>> \o ms

store_message(ms, conversation_id, user_id, role, content) ==
    Append(ms, [conversation_id |-> conversation_id, user_id |-> user_id,
                role |-> role, content |-> content])

\* the rows of one conversation in insertion (created_at) order
RECURSIVE OfConversation(_, _)
OfConversation(ms, conversation_id) ==
    IF ms = <<>> THEN <<>>
    ELSE IF Head(ms).conversation_id = conversation_id
    THEN <<Head(ms)>> \o OfConversation(Tail(ms), conversation_id)
    ELSE OfConversation(Tail(ms), conversation_id)

\* the newest `count` rows as the query returns them, newest first
get_recent_messages_newest_first(ms, conversation_id, count) ==
    LET rows == OfConversation(ms, conversation_id)
        n == Len(rows)
        m == IF n > count THEN count ELSE n
    IN  [k \in 1..m |-> [role |-> rows[n - k + 1].role, content |-> rows[n - k + 1].content]]

\* get_recent_messages: the newest `count` rows, reversed to oldest first
get_recent_messages(ms, conversation_id, count) ==
    LET rows == OfConversation(ms, conversation_id)
        n == Len(rows)
        first == IF n > count THEN n - count + 1 ELSE 1
    IN  [k \in 1..(n - first + 1) |->
            [role |-> rows[first + k - 1].role, content |-> rows[first + k - 1].content]]

\* conversation_history[:-1]
AllButLast(h) == IF h = <<>> THEN <<>> ELSE SubSeq(h, 1, Len(h) - 1)

MAX_CONTEXT_MESSAGES == 20

SystemPrompt == Text("latin", "system prompt")

\* _build_messages: the system prompt, the last MAX_CONTEXT_MESSAGES rows of
\* the history it is given, the new user message
_build_messages(message, conversation_history) ==
    LET n == Len(conversation_history)
        first == IF n > MAX_CONTEXT_MESSAGES THEN n - MAX_CONTEXT_MESSAGES + 1 ELSE 1
    IN  <<[role |-> "system", content |-> SystemPrompt]>>
        \o SubSeq(conversation_history, first, n)
        \o <<[role |-> "user", content |-> message]>>

(***************************************************************************)
(* Tool registry and dispatch (mcp_server/server.py, agent/tool_registry). *)
(***************************************************************************)
RegisteredTools == {"add_task", "list_tasks", "complete_task"}

\* get_openai_tools: the schemas of the registered tools
get_openai_tools == RegisteredTools

\* names the system prompt lists besides (agent.py: "Available Tools")
ModelNames == {"delete_task", "update_task"}

\* the tools register_all_tools is documented to register
FiveTools == {"add_task", "list_tasks", "complete_task", "delete_task", "update_task"}

\* keyword parameters of each handler's execute(): all, and those required
Parameters(name) ==
    IF name = "add_task"
    THEN {"user_id", "title", "description", "priority", "category", "due_date",
          "is_recurring", "recurrence_pattern", "recurrence_interval",
          "recurrence_end_date"}
    ELSE IF name = "list_tasks"
    THEN {"user_id", "status", "priority", "category", "search", "due_date_from",
          "due_date_to", "sort_by", "sort_order"}
    ELSE {"user_id", "task_id"}

Required(name) ==
    IF name = "add_task" THEN {"user_id", "title"}
    ELSE IF name = "list_tasks" THEN {"user_id"}
    ELSE {"user_id", "task_id"}

\* the value of a keyword argument, or the parameter's default
Arg(args, key, default) == IF key \in DOMAIN args THEN args[key] ELSE default

\* tool_args["user_id"] = self.user_id
KeepModelUserId(args, user_id) ==
    IF "user_id" \in DOMAIN args THEN args
    ELSE [k \in DOMAIN args \cup {"user_id"} |->
            IF k = "user_id" THEN user_id ELSE args[k]]

InjectUserId(args, user_id) ==
    [k \in DOMAIN args \cup {"user_id"} |-> IF k = "user_id" THEN user_id ELSE args[k]]

\* execute_tool_call: KeyError for an unregistered name, TypeError when
\* tool(**arguments) does not bind, else the handler's outcome
execute_tool_call(name, args, ts, clock) ==
    IF name \notin RegisteredTools
    THEN [raises |-> TRUE, tasks |-> ts, result |-> NoResult]
    ELSE IF ~(DOMAIN args \subseteq Parameters(name) /\ Required(name) \subseteq DOMAIN args)
    THEN [raises |-> TRUE, tasks |-> ts, result |-> NoResult]
    ELSE IF name = "add_task"
    THEN LET r == add_task_execute(ts,
                    [user_id |-> args["user_id"],
                     title |-> args["title"],
                     priority |-> Arg(args, "priority", "medium"),
                     category |-> Arg(args, "category", NoText),
                     due_date |-> Arg(args, "due_date", NoDateStr),
                     is_recurring |-> Arg(args, "is_recurring", FALSE),
                     recurrence_pattern |-> Arg(args, "recurrence_pattern", NoText),
                     recurrence_interval |-> Arg(args, "recurrence_interval", 1),
                     recurrence_end_date |-> Arg(args, "recurrence_end_date", NoDateStr)])
         IN  [raises |-> FALSE, tasks |-> r.tasks, result |-> r.result]
    ELSE IF name = "list_tasks"
    THEN [raises |-> FALSE, tasks |-> ts,
          result |-> list_tasks_execute(ts, args["user_id"], Arg(args, "status", "all"))]
    ELSE LET r == complete_task_execute(ts, args["user_id"], args["task_id"], clock)
         IN  [raises |-> FALSE, tasks |-> r.tasks, result |-> r.result]

(***************************************************************************)
(* What the language model may answer: tool calls as it generates them     *)
(* (name, JSON arguments; "json" is FALSE for text json.loads rejects).    *)
(***************************************************************************)
Call(name, args) == [name |-> name, json |-> TRUE, args |-> args]

ListCall == Call("list_tasks", [status |-> "pending"])
ListCallAs(u) == Call("list_tasks", [user_id |-> u, status |-> "pending"])
\* the schema lists user_id as required, so the model makes one up
AddCall == Call("add_task", [user_id |-> "u2", title |-> "a", due_date |-> <<2024, 1, 10>>,
                             is_recurring |-> TRUE, recurrence_pattern |-> "daily"])
\* "every Monday": weekly on weekday 0
WeeklyAddCall == Call("add_task", [title |-> "a", is_recurring |-> TRUE,
                                   recurrence_pattern |-> "weekly",
                                   recurrence_day_of_week |-> 0])
CompleteCall(i) == Call("complete_task", [task_id |-> i])
DeleteCall(i) == Call("delete_task", [task_id |-> i])
BrokenCall == [name |-> "add_task", json |-> FALSE, args |-> [title |-> "a"]]

Batches ==
    { <<ListCall>>,
      <<ListCallAs("u1")>>,
      <<AddCall>>,
      <<ListCall, CompleteCall(1)>>,
      <<AddCall, DeleteCall(1)>>,
      <<AddCall, BrokenCall>>,
      <<WeeklyAddCall>> }

\* for tool_call in assistant_message.tool_calls: the call the loop is at
\* when `made` calls have returned
NextCallFromEnd(batch, made) == batch[Len(batch) - Len(made)]

NextCall(batch, made) == batch[Len(made) + 1]

\* rows a batch may insert: one per add_task, one per completion that spawns
Inserts(batch) ==
    Cardinality({k \in DOMAIN batch : batch[k].name \in {"add_task", "complete_task"}})

(***************************************************************************)
(* A chat request in flight.                                               *)
(***************************************************************************)
Workers == {1, 2}

NoOutcome == [kind |-> "none"]

\* the request (current_user, user, conversation_id, message) and the locals
\* of the route, the service and the agent; "offered" is the tools argument
\* of the completion request being made, "untranslated" the directions ("in",
\* "out") in which the translation call raised, "messages" the message list
\* of the first completion request
IdleTurn ==
    [pc |-> "idle", current_user |-> NoText, user |-> NoText, conversation_id |-> 0,
     message |-> NoContent, conv |-> 0, history |-> <<>>, messages |-> <<>>,
     detected |-> NoText,
     english |-> NoContent, untranslated |-> {}, offered |-> {}, batch |-> <<>>,
     made |-> <<>>, final |-> NoContent, agent |-> NoOutcome, outcome |-> NoOutcome]

(***************************************************************************)
(* Initial state: empty tables, no request in flight.                      *)
(***************************************************************************)
Init ==
    /\ tasks = <<>>
    /\ now = 0
    /\ procs = [p \in Procs |-> IdleProc]
    /\ last = NoResult
    /\ convs = <<>>
    /\ msgs = <<>>
    /\ turns = [w \in Workers |-> IdleTurn]

(***************************************************************************)
(* Tool handler executions on the task store, one at a time.               *)
(***************************************************************************)
AddTask(a) ==
    /\ Len(tasks) + InFlight < MaxTasks
    /\ tasks' = add_task_execute(tasks, a).tasks
    /\ UNCHANGED <<now, procs, last, chatVars>>

\* a query: the store is left as it is
ListTasks(user_id, status) ==
    /\ list_tasks_execute(tasks, user_id, status).success
    /\ UNCHANGED vars

UpdateTask(a) ==
    /\ tasks' = update_task_execute(tasks, a).tasks
    /\ UNCHANGED <<now, procs, last, chatVars>>

CompleteTask(user_id, task_id) ==
    /\ Len(tasks) < MaxTasks
    /\ LET r == complete_task_execute(tasks, user_id, task_id, now)
       IN  /\ tasks' = r.tasks
           /\ last' = r.result
    /\ UNCHANGED <<now, procs, chatVars>>

\* the handler called with its two arguments
DeleteTask(user_id, task_id) ==
    /\ tasks' = delete_task_execute(tasks, user_id, task_id).tasks
    /\ UNCHANGED <<now, procs, last, chatVars>>

Tick ==
    /\ now < MaxClock
    /\ now' = now + 1
    /\ UNCHANGED <<tasks, procs, last, chatVars>>

Next ==
    \/ \E a \in AddArgs : AddTask(a)
    \/ \E u \in Users, st \in Statuses : ListTasks(u, st)
    \/ \E a \in UpdateArgs : UpdateTask(a)
    \/ \E u \in Users, i \in TaskIds : CompleteTask(u, i)
    \/ \E u \in Users, i \in TaskIds : DeleteTask(u, i)
    \/ Tick

Spec == Init /\ [][Next]_vars

(***************************************************************************)
(* Concurrent complete_task executions: each worker runs the handler step  *)
(* by step, the steps of different workers interleave.                     *)
(***************************************************************************)
CompleteRead(p, user_id, task_id) ==
    /\ procs[p].pc = "idle"
    /\ LET r == complete_read(tasks, user_id, task_id)
       IN  /\ r.found => Len(tasks) + InFlight < MaxTasks
           /\ procs' = [procs EXCEPT ![p] =
                          [pc |-> IF r.found THEN "read" ELSE "done",
                           user_id |-> user_id, task_id |-> task_id,
                           task |-> r.task, result |-> r.result]]
    /\ UNCHANGED <<tasks, now, last, chatVars>>

CompleteCommit(p) ==
    /\ procs[p].pc = "read"
    /\ LET c == complete_commit(tasks, procs[p].task)
       IN  /\ tasks' = c.tasks
           /\ procs' = [procs EXCEPT ![p].pc = "committed", ![p].task = c.task]
    /\ UNCHANGED <<now, last, chatVars>>

CompleteSpawn(p) ==
    /\ procs[p].pc = "committed"
    /\ LET r == complete_spawn(tasks, procs[p].task, now)
       IN  /\ tasks' = r.tasks
           /\ procs' = [procs EXCEPT ![p].pc = "done", ![p].result = r.result]
    /\ UNCHANGED <<now, last, chatVars>>

CompleteReturn(p) ==
    /\ procs[p].pc = "done"
    /\ procs' = [procs EXCEPT ![p] = IdleProc]
    /\ UNCHANGED <<tasks, now, last, chatVars>>

RaceAddArgs == {DailyAdd, [BaseAdd EXCEPT !.user_id = "u2"]}

NextRace ==
    \/ \E a \in RaceAddArgs : AddTask(a)
    \/ \E p \in Procs, u \in Users, i \in TaskIds : CompleteRead(p, u, i)
    \/ \E p \in Procs : CompleteCommit(p)
    \/ \E p \in Procs : CompleteSpawn(p)
    \/ \E p \in Procs : CompleteReturn(p)

SpecRace == Init /\ [][NextRace]_vars

(***************************************************************************)
(* The REST endpoint POST /{user_id}/tasks/{task_id}/complete              *)
(* (api/routes/tasks.py) beside the complete_task tool, one request at a   *)
(* time.  "status" is the HTTP status of the answer.                       *)
(***************************************************************************)
rest_complete_task(ts, current_user, user_id, task_id, clock) ==
    IF current_user # user_id
    THEN [tasks |-> ts, status |-> 403, next_task_id |-> None]
    ELSE LET id == SelectTask(ts, task_id, user_id)
         IN  IF id = 0
             THEN [tasks |-> ts, status |-> 404, next_task_id |-> None]
             ELSE LET c == complete_commit(ts, ts[id])
                      next == create_next_recurrence_instance(c.task, clock)
                      next_task == [id |-> Len(c.tasks) + 1] @@ next.data
                  IN  IF ~SpawnWanted(c.task, clock)
                      THEN [tasks |-> c.tasks, status |-> 200, next_task_id |-> None]
                      ELSE IF next.raises
                      THEN [tasks |-> c.tasks, status |-> 500, next_task_id |-> None]
                      ELSE [tasks |-> Append(c.tasks, next_task), status |-> 200,
                            next_task_id |-> next_task.id]

RestCompleteTask(current_user, user_id, task_id) ==
    /\ Len(tasks) < MaxTasks
    /\ tasks' = rest_complete_task(tasks, current_user, user_id, task_id, now).tasks
    /\ UNCHANGED <<now, procs, last, chatVars>>

NextRest ==
    \/ \E a \in RaceAddArgs : AddTask(a)
    \/ \E u \in Users, i \in TaskIds : CompleteTask(u, i)
    \/ \E current_user \in Users, u \in Users, i \in TaskIds :
          RestCompleteTask(current_user, u, i)
    \/ Tick

SpecRest == Init /\ [][NextRest]_vars


(***************************************************************************)
(* The recurrence engine called on its own: `last` records a call with its *)
(* arguments, the clock it ran at and what it returned.                    *)
(***************************************************************************)
Intervals == 1..MaxInterval

\* due dates: none, or a day from Jan 1 2024 on
BaseDates == {None} \cup 0..MaxBaseDate

DaysOfWeek == {None} \cup 0..6

DaysOfMonth == {None} \cup 1..31

EndDates == {None} \cup 0..(MaxClock + 1)

NextDueDate(current_due_date, pattern, interval, day_of_week, day_of_month) ==
    /\ last = NoResult
    /\ LET r == calculate_next_due_date(current_due_date, pattern, interval,
                                        day_of_week, day_of_month, now)
       IN  last' = [op |-> "calculate_next_due_date",
                    current_due_date |-> current_due_date,
                    recurrence_pattern |-> pattern,
                    recurrence_interval |-> interval,
                    recurrence_day_of_week |-> day_of_week,
                    recurrence_day_of_month |-> day_of_month,
                    now |-> now,
                    raises |-> r.raises,
                    date |-> r.date]
    /\ UNCHANGED <<tasks, now, procs, chatVars>>

ShouldCreateNextInstance(recurrence_end_date, recurrence_active) ==
    /\ last = NoResult
    /\ last' = [op |-> "should_create_next_instance",
                recurrence_end_date |-> recurrence_end_date,
                recurrence_active |-> recurrence_active,
                now |-> now,
                value |-> should_create_next_instance(recurrence_end_date,
                                                      recurrence_active, now)]
    /\ UNCHANGED <<tasks, now, procs, chatVars>>

\* the caller has taken the returned value
Returned ==
    /\ last # NoResult
    /\ last' = NoResult
    /\ UNCHANGED <<tasks, now, procs, chatVars>>

\* one call at a time, with arguments from the bounded sets
Calls ==
    /\ last = NoResult
    /\ \/ \E d \in BaseDates, pattern \in {"daily", "yearly"}, n \in Intervals :
              NextDueDate(d, pattern, n, None, None)
       \/ \E d \in BaseDates, n \in Intervals, day_of_week \in DaysOfWeek :
              NextDueDate(d, "weekly", n, day_of_week, None)
       \/ \E d \in BaseDates, n \in Intervals, day_of_month \in DaysOfMonth :
              NextDueDate(d, "monthly", n, None, day_of_month)
       \/ \E e \in EndDates, active \in BOOLEAN : ShouldCreateNextInstance(e, active)

NextRecurrence ==
    \/ Calls
    \/ Returned
    \/ Tick

SpecRecurrence == Init /\ [][NextRecurrence]_vars

(***************************************************************************)
(* The message service called on its own: conversations are created,       *)
(* messages appended to them in any order, recent messages read.           *)
(***************************************************************************)
MessageRoles == {"user", "assistant"}

CreateConversation(user_id) ==
    /\ Len(convs) < Cardinality(Users)
    /\ convs' = get_or_create_conversation(convs, user_id, 0).convs
    /\ UNCHANGED <<msgs, turns, taskVars>>

AppendMessage(conversation_id, role, content) ==
    /\ conversation_id \in DOMAIN convs
    /\ Len(msgs) < MaxMessages
    /\ msgs' = store_message(msgs, conversation_id, convs[conversation_id], role, content)
    /\ UNCHANGED <<convs, turns, taskVars>>

\* a query: the tables are left as they are
RecentMessages(conversation_id, count) ==
    /\ conversation_id \in DOMAIN convs
    /\ Len(get_recent_messages(msgs, conversation_id, count)) <= count
    /\ UNCHANGED vars

NextMessages ==
    \/ \E u \in Users : CreateConversation(u)
    \/ \E c \in DOMAIN convs, role \in MessageRoles, content \in {EnglishMessage, Reply} :
            AppendMessage(c, role, content)
    \/ \E c \in DOMAIN convs, count \in 0..(MaxMessages + 1) : RecentMessages(c, count)

SpecMessages == Init /\ [][NextMessages]_vars

(***************************************************************************)
(* A chat request, step by step: the route (api/routes/chat.py), the       *)
(* service (api/services/chat_service.py) and the agent (agent/agent.py).  *)
(***************************************************************************)
max_context_messages == 20

\* the except branch of TodoAgent.process_message
AgentFailure ==
    [success |-> FALSE, response |-> Apology, tool_calls |-> <<>>, error |-> RawError]

AgentSuccess(final_text, tool_calls_made) ==
    [success |-> TRUE, response |-> final_text, tool_calls |-> tool_calls_made,
     error |-> NoContent]

\* step 6 of process_chat_message and the ChatResponse built by the route
BuildResponseWithError(conversation_id, agent_result) ==
    [kind |-> "response", conversation_id |-> conversation_id,
     response |-> agent_result.response, tool_calls |-> agent_result.tool_calls,
     success |-> agent_result.success, detail |-> <<agent_result.error>>]

BuildResponse(conversation_id, agent_result) ==
    [kind |-> "response", conversation_id |-> conversation_id,
     response |-> agent_result.response, tool_calls |-> agent_result.tool_calls,
     success |-> agent_result.success, detail |-> <<>>]

HttpError(status, detail) ==
    [kind |-> "http", conversation_id |-> 0, response |-> NoContent,
     tool_calls |-> <<>>, success |-> FALSE, status |-> status, detail |-> detail]

Forbidden == HttpError(403, <<Text("latin", "forbidden")>>)

\* the except branches of process_chat, by the exception that reached it
ExceptionKinds == {"ValueError", "openai", "database", "other"}

route_error(exception) ==
    IF exception = "ValueError"
    THEN HttpError(400, <<Text("latin", "invalid request"), RawError>>)
    ELSE IF exception = "openai"
    THEN HttpError(503, <<Text("latin", "ai unavailable")>>)
    ELSE IF exception = "database"
    THEN HttpError(503, <<Text("latin", "database unavailable")>>)
    ELSE HttpError(500, <<Text("latin", "unexpected error")>>)

\* messages the requests in flight may still store
StillToStore(w) ==
    IF turns[w].pc = "conv" THEN 2
    ELSE IF turns[w].pc \in {"idle", "done"} THEN 0
    ELSE 1

\* process_chat up to get_or_create_conversation
Receive(w, current_user, user_id, conversation_id, message) ==
    /\ turns[w].pc = "idle"
    /\ Len(msgs) + StillToStore(1) + StillToStore(2) + 2 <= MaxMessages
    /\ LET request == [IdleTurn EXCEPT !.current_user = current_user, !.user = user_id,
                            !.conversation_id = conversation_id, !.message = message]
       IN
       IF current_user # user_id
       THEN /\ turns' = [turns EXCEPT ![w] = [request EXCEPT !.pc = "done", !.outcome = Forbidden]]
            /\ UNCHANGED convs
       ELSE LET got == get_or_create_conversation(convs, user_id, conversation_id)
            IN  IF got.forbidden
                THEN /\ turns' = [turns EXCEPT ![w] = [request EXCEPT !.pc = "done", !.outcome = Forbidden]]
                     /\ UNCHANGED convs
                ELSE /\ turns' = [turns EXCEPT ![w] = [request EXCEPT !.pc = "conv", !.conv = got.id]]
                     /\ convs' = got.convs
    /\ UNCHANGED <<msgs, taskVars>>

\* a step 2 that stores nothing
StoreUserDeferred(w) ==
    /\ turns[w].pc = "conv"
    /\ turns' = [turns EXCEPT ![w].pc = "stored"]
    /\ UNCHANGED <<convs, msgs, taskVars>>

\* step 2: store the user message
StoreUser(w) ==
    /\ turns[w].pc = "conv"
    /\ msgs' = store_message(msgs, turns[w].conv, turns[w].user, "user", turns[w].message)
    /\ turns' = [turns EXCEPT ![w].pc = "stored"]
    /\ UNCHANGED <<convs, taskVars>>

\* step 3: load the history, or the query raises
LoadHistory(w) ==
    /\ turns[w].pc = "stored"
    /\ \/ turns' = [turns EXCEPT ![w].pc = "agent",
                        ![w].history = get_recent_messages(msgs, turns[w].conv,
                                                           max_context_messages)]
       \/ \E e \in ExceptionKinds :
            turns' = [turns EXCEPT ![w].pc = "done", ![w].outcome = route_error(e)]
    /\ UNCHANGED <<convs, msgs, taskVars>>

\* process_message: detection and inbound translation
AgentStart(w) ==
    /\ turns[w].pc = "agent"
    /\ \/ turns' = [turns EXCEPT ![w].pc = "agentdone", ![w].agent = AgentFailure]
       \/ LET lang == detect(turns[w].message)
          IN  \E fails \in (IF lang = "en" THEN {FALSE} ELSE BOOLEAN) :
                turns' = [turns EXCEPT ![w].pc = "model", ![w].detected = lang,
                            ![w].english = translate_to_english(turns[w].message, lang, fails),
                            ![w].untranslated = IF fails THEN {"in"} ELSE {},
                            ![w].messages =
                                _build_messages(
                                    translate_to_english(turns[w].message, lang, fails),
                                    AllButLast(turns[w].history)),
                            ![w].offered = get_openai_tools]
    /\ UNCHANGED <<convs, msgs, taskVars>>

\* the first completion request, with the tool schemas
ModelCall(w) ==
    /\ turns[w].pc = "model"
    /\ \/ turns' = [turns EXCEPT ![w].pc = "agentdone", ![w].agent = AgentFailure]
       \/ \E content \in {Reply, NoContent} :
            turns' = [turns EXCEPT ![w].pc = "translate", ![w].final = content]
       \/ \E batch \in Batches :
            /\ \A k \in DOMAIN batch : batch[k].name \in turns[w].offered \cup ModelNames
            /\ Len(tasks) + Inserts(batch) <= MaxChatTasks
            /\ turns' = [turns EXCEPT ![w].pc = "tools", ![w].batch = batch]
    /\ UNCHANGED <<convs, msgs, taskVars>>

\* one pass of the loop over assistant_message.tool_calls
ExecTool(w) ==
    /\ turns[w].pc = "tools"
    /\ \E t \in {turns[w]} :
       \E call \in {NextCall(t.batch, t.made)} :
       \E tool_args \in {InjectUserId(call.args, t.user)} :
       \E r \in {execute_tool_call(call.name, tool_args, tasks, now)} :
          IF ~call.json \/ r.raises
          THEN /\ turns' = [turns EXCEPT ![w].pc = "agentdone", ![w].agent = AgentFailure]
               /\ UNCHANGED tasks
          ELSE /\ tasks' = r.tasks
               /\ turns' = [turns EXCEPT
                     ![w].made = Append(t.made, [tool |-> call.name, args |-> tool_args,
                                                 result |-> r.result]),
                     ![w].pc = IF Len(t.made) + 1 = Len(t.batch) THEN "model2" ELSE "tools",
                     ![w].offered = IF Len(t.made) + 1 = Len(t.batch) THEN {} ELSE @]
    /\ UNCHANGED <<convs, msgs, now, procs, last>>

\* a follow-up request whose answer may ask for tool calls again
FollowUpWithTools(w) ==
    /\ turns[w].pc = "model2"
    /\ \/ turns' = [turns EXCEPT ![w].pc = "agentdone", ![w].agent = AgentFailure]
       \/ \E content \in {Reply, NoContent} :
            turns' = [turns EXCEPT ![w].pc = "translate", ![w].final = content]
       \/ \E batch \in Batches :
            /\ Len(tasks) + Inserts(batch) <= MaxChatTasks
            /\ turns' = [turns EXCEPT ![w].pc = "tools", ![w].batch = batch,
                                      ![w].made = <<>>]
    /\ UNCHANGED <<convs, msgs, taskVars>>

\* the follow-up completion request: sent without tool schemas, and only the
\* content of its answer is read
FollowUp(w) ==
    /\ turns[w].pc = "model2"
    /\ \/ turns' = [turns EXCEPT ![w].pc = "agentdone", ![w].agent = AgentFailure]
       \/ \E content \in {Reply, NoContent} :
            turns' = [turns EXCEPT ![w].pc = "translate", ![w].final = content]
    /\ UNCHANGED <<convs, msgs, taskVars>>

\* outbound translation and the success return
TranslateOut(w) ==
    /\ turns[w].pc = "translate"
    /\ LET t == turns[w]
       IN  \E fails \in (IF t.detected # "en" /\ t.final # NoContent THEN BOOLEAN ELSE {FALSE}) :
             LET final_text == IF t.detected # "en" /\ t.final # NoContent
                               THEN translate_from_english(t.final, t.detected, fails)
                               ELSE t.final
             IN  turns' = [turns EXCEPT ![w].pc = "agentdone", ![w].final = final_text,
                                ![w].untranslated = IF fails THEN @ \cup {"out"} ELSE @,
                                ![w].agent = AgentSuccess(final_text, t.made)]
    /\ UNCHANGED <<convs, msgs, taskVars>>

\* steps 5 and 6: store the assistant message (content is NOT NULL) and answer
Persist(w) ==
    /\ turns[w].pc = "agentdone"
    /\ LET t == turns[w]
       IN  IF t.agent.response = NoContent
           THEN /\ turns' = [turns EXCEPT ![w].pc = "done", ![w].outcome = route_error("other")]
                /\ UNCHANGED msgs
           ELSE /\ msgs' = store_message(msgs, t.conv, t.user, "assistant", t.agent.response)
                /\ turns' = [turns EXCEPT ![w].pc = "done",
                                          ![w].outcome = BuildResponse(t.conv, t.agent)]
    /\ UNCHANGED <<convs, taskVars>>

\* the answer has left; the worker takes the next request
Finish(w) ==
    /\ turns[w].pc = "done"
    /\ turns' = [turns EXCEPT ![w] = IdleTurn]
    /\ UNCHANGED <<convs, msgs, taskVars>>

ConversationIds == 0..2

Turn(w) ==
    \/ \E current_user \in Users, user_id \in Users, conversation_id \in ConversationIds,
          message \in {EnglishMessage, UrduMessage} :
            Receive(w, current_user, user_id, conversation_id, message)
    \/ StoreUser(w)
    \/ LoadHistory(w)
    \/ AgentStart(w)
    \/ ModelCall(w)
    \/ ExecTool(w)
    \/ FollowUp(w)
    \/ TranslateOut(w)
    \/ Persist(w)
    \/ Finish(w)

\* one request at a time
NextChat == Turn(1)

SpecChat == Init /\ [][NextChat]_vars

\* the steps of a request once it was received: each awaits at most one
\* external call (database, language model, translation), which returns or
\* raises
Proceed(w) ==
    \/ StoreUser(w)
    \/ LoadHistory(w)
    \/ AgentStart(w)
    \/ ModelCall(w)
    \/ ExecTool(w)
    \/ FollowUp(w)
    \/ TranslateOut(w)
    \/ Persist(w)
    \/ Finish(w)

\* requests for u1's chat, from u1 and from u2
NextChatLive ==
    \/ \E current_user \in Users, conversation_id \in 0..1,
          message \in {EnglishMessage, UrduMessage} :
            Receive(1, current_user, "u1", conversation_id, message)
    \/ Proceed(1)

\* every external call returns or fails
SpecChatLive == Init /\ [][NextChatLive]_vars /\ WF_vars(Proceed(1))

(***************************************************************************)
(* Two requests of u1 in flight at once, each an independent execution of  *)
(* process_chat; their steps interleave at the awaits.                     *)
(***************************************************************************)
NextChatPair ==
    \E w \in Workers :
        \/ \E conversation_id \in 0..1 :
              Receive(w, "u1", "u1", conversation_id,
                      IF w = 1 THEN EnglishMessage ELSE UrduMessage)
        \/ Proceed(w)

SpecChatPair == Init /\ [][NextChatPair]_vars


(***************************************************************************)
(* Properties of the task store (Spec, SpecRace).                          *)
(***************************************************************************)
\* the rows of ts2 that differ from ts or are new
Touched(ts, ts2) ==
    {j \in DOMAIN ts2 : j \notin DOMAIN ts \/ ts2[j] # ts[j]}

PrefixKept(ts, ts2) == Len(ts2) >= Len(ts)

\* task i goes from pending to completed in this step
Completes(i) == ~tasks[i].completed /\ tasks'[i].completed

(* C2: whatever the store holds, an execution by owner A returns only A's   *)
(* rows and touches only A's rows; update_task and complete_task naming     *)
(* another owner's task fail and leave the store as it is; a spawned task   *)
(* has the owner of the completed task.                                     *)
C2_OwnerIsolation ==
    \A A \in Users :
        /\ \A st \in Statuses :
             LET r == list_tasks_execute(tasks, A, st)
             IN  \A k \in DOMAIN r.tasks : tasks[r.tasks[k].task_id].user_id = A
        /\ \A a \in AddArgs :
             a.user_id = A =>
                LET r == add_task_execute(tasks, a)
                IN  /\ PrefixKept(tasks, r.tasks)
                    /\ \A j \in Touched(tasks, r.tasks) : r.tasks[j].user_id = A
        /\ \A a \in UpdateArgs :
             a.user_id = A =>
                LET r == update_task_execute(tasks, a)
                IN  /\ Len(r.tasks) = Len(tasks)
                    /\ \A j \in Touched(tasks, r.tasks) : tasks[j].user_id = A
                    /\ (a.task_id \in DOMAIN tasks /\ tasks[a.task_id].user_id # A)
                          => ~r.result.success /\ r.tasks = tasks
        /\ \A i \in TaskIds :
             LET r == complete_task_execute(tasks, A, i, now)
             IN  /\ PrefixKept(tasks, r.tasks)
                 /\ \A j \in Touched(tasks, r.tasks) : r.tasks[j].user_id = A
                 /\ (i \in DOMAIN tasks /\ tasks[i].user_id # A)
                       => ~r.result.success /\ r.tasks = tasks
                 /\ Len(r.tasks) > Len(tasks)
                       => r.tasks[Len(r.tasks)].user_id = tasks[i].user_id

\* both owners hold a task, one completed with its next instance spawned
C2_Witness ==
    /\ \E i, j \in DOMAIN tasks : tasks[i].user_id = "u1" /\ tasks[j].user_id = "u2"
    /\ \E j \in DOMAIN tasks :
          /\ tasks[j].parent_recurrence_id # None
          /\ tasks[tasks[j].parent_recurrence_id].completed
    /\ last.success

(* C3: completing a pending recurring task that has a pattern, is active    *)
(* and has no end date or one in the future succeeds and reports the id and *)
(* the due date of exactly one new pending task; its due date is the next   *)
(* occurrence of the completed task's due date (daily: due date plus        *)
(* interval days, Jan 10 gives Jan 11) and its parent is the completed      *)
(* task's parent if it has one, else the completed task.                    *)
C3_Step ==
    \A i \in DOMAIN tasks :
        LET t == tasks[i]
            n == Len(tasks) + 1
            base == IF t.due_date = None THEN now + 1 ELSE t.due_date
        IN  ( /\ Completes(i)
              /\ t.is_recurring
              /\ t.recurrence_pattern # NoText
              /\ t.recurrence_active
              /\ (t.recurrence_end_date = None \/ now < t.recurrence_end_date) )
            =>
            /\ Len(tasks') = n
            /\ \A j \in DOMAIN tasks : j # i => tasks'[j] = tasks[j]
            /\ tasks'[i] = [t EXCEPT !.completed = TRUE]
            /\ last'.success
            /\ last'.task_id = i
            /\ last'.status = "completed"
            /\ last'.next_task_id = n
            /\ tasks'[n].id = n
            /\ ~tasks'[n].completed
            /\ tasks'[n].user_id = t.user_id
            /\ tasks'[n].due_date =
                  calculate_next_due_date(t.due_date, t.recurrence_pattern,
                                          t.recurrence_interval, t.recurrence_day_of_week,
                                          t.recurrence_day_of_month, now).date
            /\ t.recurrence_pattern = "daily"
                  => tasks'[n].due_date = base + t.recurrence_interval
            /\ last'.next_task_due_date = isoformat(tasks'[n].due_date)
            /\ (t.recurrence_pattern = "daily" /\ t.recurrence_interval = 1
                    /\ t.due_date = MkDate(2024, 1, 10))
                  => last'.next_task_due_date = <<2024, 1, 11>>
            /\ tasks'[n].parent_recurrence_id =
                  (IF t.parent_recurrence_id # None THEN t.parent_recurrence_id ELSE i)

C4_BothSpawn ==
    \A p, q \in Procs :
        ( /\ p # q
          /\ procs[p].pc = "done" /\ procs[q].pc = "done"
          /\ procs[p].task # NoTask /\ procs[q].task # NoTask
          /\ procs[p].task_id = procs[q].task_id
          /\ SpawnWanted(procs[p].task, now) )
        =>
        LET a == procs[p].result.next_task_id
            b == procs[q].result.next_task_id
        IN  /\ a \in DOMAIN tasks /\ b \in DOMAIN tasks /\ a # b
            /\ ~tasks[a].completed /\ ~tasks[b].completed
            /\ tasks[a].parent_recurrence_id = tasks[b].parent_recurrence_id
            /\ tasks[a].due_date = tasks[b].due_date

\* two pending instances of one recurrence with the same due date, left by
\* two executions that completed the same task
C4_Witness ==
    /\ procs[1].pc = "done" /\ procs[2].pc = "done"
    /\ procs[1].task # NoTask /\ procs[1].task_id = procs[2].task_id
    /\ \E a, b \in DOMAIN tasks :
          /\ a # b
          /\ ~tasks[a].completed /\ ~tasks[b].completed
          /\ tasks[a].parent_recurrence_id = procs[1].task_id
          /\ tasks[b].parent_recurrence_id = procs[1].task_id
          /\ tasks[a].due_date = tasks[b].due_date

(* C5: every task with a parent_recurrence_id points to a stored task whose *)
(* own parent_recurrence_id is null.                                        *)
C5_ParentIsRoot ==
    \A i \in DOMAIN tasks :
        tasks[i].parent_recurrence_id # None
            => /\ tasks[i].parent_recurrence_id \in DOMAIN tasks
               /\ tasks[tasks[i].parent_recurrence_id].parent_recurrence_id = None

\* a root, its instance, and the instance spawned by completing that instance
C5_Witness ==
    \E i, j, k \in DOMAIN tasks :
        /\ i < j /\ j < k
        /\ tasks[i].parent_recurrence_id = None
        /\ tasks[j].parent_recurrence_id = i /\ tasks[j].completed
        /\ tasks[k].parent_recurrence_id = i
        /\ tasks[k].due_date = tasks[j].due_date + 1

(* C6: completing a task whose is_recurring flag is false creates no task:  *)
(* the number of tasks is unchanged and the answer names no next instance,  *)
(* whatever the other recurrence fields hold.                               *)
C6_Step ==
    \A i \in DOMAIN tasks :
        (Completes(i) /\ ~tasks[i].is_recurring)
        =>
        /\ Len(tasks') = Len(tasks)
        /\ \A j \in DOMAIN tasks : j # i => tasks'[j] = tasks[j]
        /\ last'.success
        /\ last'.task_id = i
        /\ last'.next_task_id = None
        /\ last'.next_task_due_date = NoDateStr

C6_NonRecurringNeverSpawns == [][C6_Step]_vars

\* a completed task that is not recurring although it carries a pattern
C6_Witness ==
    \E i \in DOMAIN tasks :
        /\ tasks[i].completed
        /\ ~tasks[i].is_recurring
        /\ tasks[i].recurrence_pattern = "weekly"
        /\ last.success /\ last.task_id = i /\ last.next_task_id = None


(***************************************************************************)
(* Properties of the chat turn (SpecChat).                                 *)
(***************************************************************************)
UserRow(t) ==
    [conversation_id |-> t.conv, user_id |-> t.user, role |-> "user",
     content |-> t.message]

AssistantRow(t, content) ==
    [conversation_id |-> t.conv, user_id |-> t.user, role |-> "assistant",
     content |-> content]

Roles(rows) == [k \in DOMAIN rows |-> rows[k].role]

\* the texts an answer carries in its fields
TextsOf(outcome) ==
    {outcome.response} \cup {outcome.detail[k] : k \in DOMAIN outcome.detail}

(* C1: every tool call executed in a turn reaches its handler with the      *)
(* owner set to the turn's authenticated user, whatever user_id the model   *)
(* wrote into the arguments or left out: calls that differ only in the      *)
(* model's user_id are dispatched with the same arguments, and a task the   *)
(* call created is owned by the authenticated user.                         *)
C1_InjectedOwner ==
    \A w \in Workers :
        LET t == turns[w]
        IN  \A k \in DOMAIN t.made :
              /\ t.made[k].tool = t.batch[k].name
              /\ t.made[k].args["user_id"] = t.current_user
              /\ t.made[k].args =
                    InjectUserId([x \in DOMAIN t.batch[k].args \ {"user_id"} |->
                                      t.batch[k].args[x]], t.current_user)
              /\ (t.made[k].tool = "add_task" /\ t.made[k].result.success)
                    => tasks[t.made[k].result.task_id].user_id = t.current_user

\* u1's turn ran an add_task for which the model had written user_id u2
C1_Witness ==
    \E w \in Workers :
        LET t == turns[w]
        IN  /\ t.current_user = "u1"
            /\ Len(t.made) >= 1
            /\ t.made[1].tool = "add_task"
            /\ t.batch[1].args["user_id"] = "u2"
            /\ t.made[1].args["user_id"] = "u1"
            /\ t.made[1].result.success
            /\ tasks[t.made[1].result.task_id].user_id = "u1"

(* C7, first part: a turn that returns a response has appended exactly two  *)
(* messages to the conversation named in the response: the user message     *)
(* with the inbound text, then the assistant message with the returned      *)
(* text; no other step of a turn changes the stored messages.               *)
C7_Step ==
    \A w \in Workers :
        LET t == turns[w]
            u == turns'[w]
            answers == t.pc # "done" /\ u.pc = "done" /\ u.outcome.kind = "response"
        IN  /\ answers =>
                /\ u.outcome.conversation_id = t.conv
                /\ msgs # <<>>
                /\ msgs[Len(msgs)] = UserRow(t)
                /\ msgs' = Append(msgs, AssistantRow(t, u.outcome.response))
            /\ (t.pc # "idle" /\ msgs' # msgs) =>
                \/ answers
                \/ t.pc = "conv" /\ u.pc = "stored" /\ msgs' = Append(msgs, UserRow(t))
            /\ (t.pc = "conv" /\ u.pc # "conv") => msgs' = Append(msgs, UserRow(t))

\* rows of every conversation alternate user, assistant, starting with user
C7_Alternates ==
    \A c \in DOMAIN convs :
        LET rows == OfConversation(msgs, c)
        IN  \A k \in DOMAIN rows :
                rows[k].role = (IF k % 2 = 1 THEN "user" ELSE "assistant")

\* every assistant message directly follows a user message of its conversation
C7_AssistantFollowsUser ==
    \A c \in DOMAIN convs :
        LET rows == OfConversation(msgs, c)
        IN  \A k \in DOMAIN rows :
                rows[k].role = "assistant" => k > 1 /\ rows[k - 1].role = "user"

C8_Step ==
    \A w \in Workers :
        LET t == turns[w]
            u == turns'[w]
        IN  /\ ( /\ t.pc = "idle" /\ u.pc # "idle"
                 /\ u.conversation_id \in DOMAIN convs
                 /\ convs[u.conversation_id] # u.user )
               => /\ u.pc = "done"
                  /\ u.outcome = Forbidden
                  /\ msgs' = msgs
                  /\ convs' = convs
            /\ (t.pc = "done" /\ t.outcome = Forbidden)
               => /\ u.pc = "idle"
                  /\ msgs' = msgs
                  /\ convs' = convs

C8_ForeignConversationForbidden == [][C8_Step]_vars

\* u2, authenticated as u2, named u1's conversation and got Forbidden
C8_Witness ==
    \E w \in Workers :
        LET t == turns[w]
        IN  /\ t.pc = "done"
            /\ t.current_user = "u2" /\ t.user = "u2"
            /\ t.conversation_id \in DOMAIN convs
            /\ convs[t.conversation_id] = "u1"
            /\ t.outcome = Forbidden
            /\ msgs # <<>>


\* the call ExecTool is about to make does not get as far as a handler:
\* json.loads rejects the arguments, the name is not registered, or the
\* arguments do not bind to the handler's parameters
DispatchRaises(t) ==
    /\ t.pc = "tools"
    /\ LET call == NextCall(t.batch, t.made)
           args == InjectUserId(call.args, t.user)
       IN  \/ ~call.json
           \/ call.name \notin RegisteredTools
           \/ ~(DOMAIN args \subseteq Parameters(call.name))
           \/ ~(Required(call.name) \subseteq DOMAIN args)

\* the step leaves the try block of process_message through its except branch
AgentRaises(t, u) ==
    t.pc \in {"agent", "model", "tools", "model2"} /\ u.pc = "agentdone"

\* the inbound translation raised inside the translator
InboundTranslationRaises(t, u) ==
    t.pc = "agent" /\ u.pc = "model" /\ u.detected # "en" /\ u.english = t.message

\* get_recent_messages raised
HistoryRaises(t, u) == t.pc = "stored" /\ u.pc = "done"

\* the answer of a failed turn: success=false, the apology, no raw error text
SafeFailure(outcome) ==
    /\ outcome.kind = "response"
    /\ ~outcome.success
    /\ outcome.response = Apology
    /\ outcome.tool_calls = <<>>
    /\ RawError \notin TextsOf(outcome)

\* what the agent's except branch and the service make of an exception
C9_AgentPart(w) ==
    LET t == turns[w]
        u == turns'[w]
    IN  /\ DispatchRaises(t) => AgentRaises(t, u) /\ tasks' = tasks
        /\ AgentRaises(t, u) => u.agent = AgentFailure
        /\ (t.pc = "agentdone" /\ ~t.agent.success)
              => /\ u.pc = "done"
                 /\ SafeFailure(u.outcome)
                 /\ u.outcome.conversation_id = t.conv
                 /\ msgs' = Append(msgs, AssistantRow(t, Apology))

(* C9 as stated: an exception in language detection, inbound translation,   *)
(* history loading, a model call, argument decoding or a tool execution     *)
(* ends the turn with success=false and the apology, and no field of the    *)
(* answer carries the raw error text.                                       *)
C9_OriginalStep ==
    \A w \in Workers :
        LET t == turns[w]
            u == turns'[w]
        IN  /\ C9_AgentPart(w)
            /\ (InboundTranslationRaises(t, u) \/ HistoryRaises(t, u))
                  => u.pc = "agentdone" /\ u.agent = AgentFailure

C9_Step ==
    \A w \in Workers :
        LET t == turns[w]
            u == turns'[w]
        IN  /\ C9_AgentPart(w)
            /\ InboundTranslationRaises(t, u)
                  => u.agent = NoOutcome /\ u.outcome = NoOutcome
            /\ HistoryRaises(t, u)
                  => /\ u.outcome.kind = "http"
                     /\ u.outcome.status \in {400, 500, 503}
                     /\ (u.outcome.status = 400) = (RawError \in TextsOf(u.outcome))
                     /\ msgs' = msgs
                     /\ msgs[Len(msgs)] = UserRow(t)

C10_Original ==
    \A w \in Workers :
        turns[w].pc = "model2" => turns[w].offered = get_openai_tools


\* the names of the calls of a batch, or of the records of executed calls
ToolNames(calls) ==
    [k \in DOMAIN calls |-> IF "tool" \in DOMAIN calls[k] THEN calls[k].tool
                            ELSE calls[k].name]

(* C11: the calls of a batch execute one at a time in the order the model   *)
(* requested them: a step executes at most one call, the k-th call to       *)
(* execute is the k-th of the batch, it runs on the task store as call k-1  *)
(* left it, and its result is recorded before call k+1 starts; nothing else *)
(* in a turn changes the task store; a turn that answers with success after *)
(* its batch has run returns tool_calls with the length and order of the    *)
(* batch.                                                                   *)
C11_Step ==
    \A w \in Workers :
        LET t == turns[w]
            u == turns'[w]
            k == Len(t.made) + 1
        IN  /\ (u.pc # "idle" /\ u.made # t.made) =>
                /\ t.pc = "tools"
                /\ k \in DOMAIN t.batch
                /\ LET r == execute_tool_call(t.batch[k].name,
                                              InjectUserId(t.batch[k].args, t.user),
                                              tasks, now)
                   IN  /\ u.made = Append(t.made,
                                          [tool |-> t.batch[k].name,
                                           args |-> InjectUserId(t.batch[k].args, t.user),
                                           result |-> r.result])
                       /\ tasks' = r.tasks
                /\ u.pc = (IF k = Len(t.batch) THEN "model2" ELSE "tools")
            /\ (t.pc # "idle" /\ tasks' # tasks) => Len(u.made) = Len(t.made) + 1
            /\ t.pc = "model2" => Len(t.made) = Len(t.batch)
            /\ (t.pc # "done" /\ u.pc = "done" /\ u.outcome.kind = "response"
                    /\ u.outcome.success)
                  => /\ Len(u.outcome.tool_calls) = Len(t.batch)
                     /\ ToolNames(u.outcome.tool_calls) = ToolNames(t.batch)
                     /\ u.outcome.tool_calls = t.made

Stage(pc) ==
    IF pc = "idle" THEN 0
    ELSE IF pc = "conv" THEN 1
    ELSE IF pc = "stored" THEN 2
    ELSE IF pc = "agent" THEN 3
    ELSE IF pc = "model" THEN 4
    ELSE IF pc = "tools" THEN 5
    ELSE IF pc = "model2" THEN 6
    ELSE IF pc = "translate" THEN 7
    ELSE IF pc = "agentdone" THEN 8
    ELSE 9

C12_Step ==
    \A w \in Workers :
        LET t == turns[w]
            u == turns'[w]
        IN  /\ (t.pc # "idle" /\ u # t) =>
                \/ Stage(u.pc) > Stage(t.pc)
                \/ /\ t.pc = "tools" /\ u.pc = "tools"
                   /\ u.batch = t.batch
                   /\ Len(u.made) = Len(t.made) + 1
                \/ t.pc = "done" /\ u.pc = "idle"
            /\ Len(u.made) <= Len(u.batch)
            /\ u.batch # t.batch => t.pc \in {"model", "done"}
            /\ (t.pc # "done" /\ u.pc = "done") =>
                \/ u.outcome.kind = "response" /\ u.outcome.response # NoContent
                \/ u.outcome.kind = "http" /\ ~u.outcome.success

(* C12: every chat turn terminates whatever the model answers. A turn only  *)
(* moves forward along receive, store, history, first model call, tool      *)
(* loop, follow-up model call, translation, persist: it sends at most two   *)
(* completion requests and executes at most as many tool calls as the one   *)
(* batch of the first answer holds; and, every external call returning or   *)
(* failing, a turn that was received (by worker 1, which serves the        *)
(* requests) ends with a response or with a failure outcome.                *)
C12_TurnTerminates ==
    /\ [][C12_Step]_vars
    /\ (turns[1].pc # "idle") ~> (turns[1].pc = "done")

\* a turn that ran a batch of two calls and got its follow-up answer ended
C12_Witness ==
    \E w \in Workers :
        LET t == turns[w]
        IN  /\ t.pc = "done"
            /\ Len(t.batch) = 2 /\ Len(t.made) = 2
            /\ t.outcome.kind = "response" /\ t.outcome.success


(* C13: every tool call executed during a turn appears, with its tool name, *)
(* arguments and result, in the tool_calls list of the response returned    *)
(* for that turn, also when a later call of the batch or the follow-up      *)
(* model call failed.                                                       *)
C13_Original ==
    \A w \in Workers :
        LET t == turns[w]
        IN  (t.pc = "done" /\ t.outcome.kind = "response")
                => \A k \in DOMAIN t.made :
                      \E j \in DOMAIN t.outcome.tool_calls :
                          t.outcome.tool_calls[j] = t.made[k]


\* tool(**arguments) binds: no unknown keyword, no required one missing
Binds(name, args) ==
    DOMAIN args \subseteq Parameters(name) /\ Required(name) \subseteq DOMAIN args

(* C14: a model-issued call to add_task, list_tasks, complete_task,         *)
(* delete_task or update_task is dispatched to a handler; the dispatch      *)
(* fails for an unknown tool only when the name is none of these five, and  *)
(* then no handler has run.                                                 *)
C14_OriginalStep ==
    \A w \in Workers :
        LET t == turns[w]
            u == turns'[w]
        IN  (t.pc = "tools" /\ u.pc = "agentdone") =>
                LET call == NextCall(t.batch, t.made)
                IN  (call.json /\ Binds(call.name, InjectUserId(call.args, t.user)))
                        => call.name \notin FiveTools /\ tasks' = tasks

C14_Original == [][C14_OriginalStep]_vars


(* C15: when the model issues add_task with recurrence_pattern "weekly",    *)
(* recurrence_day_of_week 0 and is_recurring true, the add handler accepts  *)
(* the arguments: the call does not fail the turn, a recurring task with    *)
(* pattern weekly and day-of-week 0 is stored for the user, and the call's  *)
(* result is a success envelope with the task's title.                      *)
C15_OriginalStep ==
    \A w \in Workers :
        LET t == turns[w]
            u == turns'[w]
            n == Len(tasks) + 1
        IN  (t.pc = "tools" /\ u.pc # "tools" /\ t.batch = <<WeeklyAddCall>>) =>
                /\ u.pc = "model2"
                /\ Len(tasks') = n
                /\ tasks'[n].user_id = t.user
                /\ tasks'[n].is_recurring
                /\ tasks'[n].recurrence_pattern = "weekly"
                /\ tasks'[n].recurrence_day_of_week = 0
                /\ u.made[1].result.success
                /\ u.made[1].result.title = tasks'[n].title

C15_Original == [][C15_OriginalStep]_vars


(***************************************************************************)
(* Properties of the recurrence engine (SpecRecurrence).                   *)
(***************************************************************************)
\* the latest call was one of `op`
Called(op) == "op" \in DOMAIN last /\ last.op = op

\* the base date of the latest calculate_next_due_date call
BaseOf(call) ==
    IF call.current_due_date = None THEN call.now + 1 ELSE call.current_due_date

Min(a, b) == IF a <= b THEN a ELSE b

(* C16: weekly with an explicit weekday D and interval n: the result falls  *)
(* on weekday D and is the n-th day of that weekday strictly after the base *)
(* date, so its offset lies in 7(n-1)+1 .. 7n; a base date on weekday D     *)
(* with interval 2 gives the base date plus 14 days.                        *)
C16_WeeklyNthOccurrence ==
    ( /\ Called("calculate_next_due_date")
      /\ last.recurrence_pattern = "weekly"
      /\ last.recurrence_day_of_week # None )
    =>
    LET base == BaseOf(last)
        n == last.recurrence_interval
        D == last.recurrence_day_of_week
        offset == last.date - base
    IN  /\ ~last.raises
        /\ Weekday(last.date) = D
        /\ offset \in (7 * (n - 1) + 1)..(7 * n)
        /\ Cardinality({d \in (base + 1)..last.date : Weekday(d) = D}) = n
        /\ (Weekday(base) = D /\ n = 2) => offset = 14

\* a Monday base date, weekday Monday, every 2 weeks: two weeks later
C16_Witness ==
    /\ Called("calculate_next_due_date")
    /\ last.recurrence_pattern = "weekly"
    /\ last.current_due_date = MkDate(2024, 1, 8)
    /\ last.recurrence_day_of_week = 0
    /\ last.recurrence_interval = 2
    /\ last.date = MkDate(2024, 1, 22)

(* C17: monthly with interval n and target day d (day_of_month if given,    *)
(* else the base date's day): the call does not raise, and the result lies  *)
(* n months after the base month, the year advanced by one for each pass    *)
(* beyond December, on day min(d, last day of that month); Jan 31 gives     *)
(* Feb 29 in a leap year and Feb 28 otherwise.                              *)
C17_MonthlyClamped ==
    ( /\ Called("calculate_next_due_date")
      /\ last.recurrence_pattern = "monthly" )
    =>
    LET base == BaseOf(last)
        n == last.recurrence_interval
        d == IF last.recurrence_day_of_month # None THEN last.recurrence_day_of_month
             ELSE DayOf(base)
        months == YearOf(base) * 12 + (MonthOf(base) - 1) + n
        y == months \div 12
        m == (months % 12) + 1
    IN  /\ ~last.raises
        /\ YearOf(last.date) = y
        /\ MonthOf(last.date) = m
        /\ DayOf(last.date) = Min(d, DaysInMonth(y, m))
        /\ (d = 31 /\ m = 2) => DayOf(last.date) = (IF IsLeap(y) THEN 29 ELSE 28)
        /\ (base = MkDate(2024, 1, 31) /\ d = 31 /\ n = 1)
              => last.date = MkDate(2024, 2, 29)

\* Jan 31 2024, every 13 months, no day_of_month: Feb 28 2025
C17_Witness ==
    /\ Called("calculate_next_due_date")
    /\ last.recurrence_pattern = "monthly"
    /\ last.current_due_date = MkDate(2024, 1, 31)
    /\ last.recurrence_day_of_month = None
    /\ last.recurrence_interval = 13
    /\ ~last.raises
    /\ last.date = MkDate(2025, 2, 28)

(* C18: should_create_next_instance is false when the recurrence is not     *)
(* active, false when an end date is set and the clock is at or past it,    *)
(* and true otherwise.                                                      *)
C18_ShouldSpawn ==
    Called("should_create_next_instance") =>
        /\ ~last.recurrence_active => ~last.value
        /\ (last.recurrence_end_date # None /\ last.now >= last.recurrence_end_date)
              => ~last.value
        /\ ( /\ last.recurrence_active
             /\ (last.recurrence_end_date = None \/ last.now < last.recurrence_end_date) )
              => last.value

\* active, called at the very end date: no next instance
C18_Witness ==
    /\ Called("should_create_next_instance")
    /\ last.recurrence_active
    /\ last.recurrence_end_date = last.now
    /\ last.now > 0
    /\ ~last.value


(* C19: a translation call that raises never fails the turn. When the       *)
(* inbound translation raised, the turn goes on to the model call with the  *)
(* original, untranslated text; when the outbound translation raised, the   *)
(* agent returns success with the English final text and all executed tool  *)
(* calls, and the turn answers with success=true and that English text.     *)
C19_Step ==
    \A w \in Workers :
        LET t == turns[w]
            u == turns'[w]
        IN  /\ (t.pc = "agent" /\ "in" \in u.untranslated) =>
                /\ u.pc = "model"
                /\ u.english = t.message
                /\ u.offered = get_openai_tools
                /\ u.agent = NoOutcome /\ u.outcome = NoOutcome
            /\ (t.pc = "translate" /\ "out" \in u.untranslated) =>
                /\ u.pc = "agentdone"
                /\ t.final.script = "latin"
                /\ u.agent = AgentSuccess(t.final, t.made)
            /\ (t.pc = "agentdone" /\ "out" \in t.untranslated) =>
                /\ u.pc = "done"
                /\ u.outcome.kind = "response"
                /\ u.outcome.success
                /\ u.outcome.response = t.final
                /\ u.outcome.response.script = "latin"
                /\ u.outcome.tool_calls = t.made

C19_TranslationFailureDegrades == [][C19_Step]_vars

\* an Urdu request whose translations both raised was answered in English
C19_Witness ==
    \E w \in Workers :
        LET t == turns[w]
        IN  /\ t.pc = "done"
            /\ t.message = UrduMessage
            /\ t.english = UrduMessage
            /\ t.untranslated = {"in", "out"}
            /\ t.outcome.kind = "response" /\ t.outcome.success
            /\ t.outcome.response = Reply


(***************************************************************************)
(* Properties of the message service (SpecMessages).                       *)
(***************************************************************************)
\* the positions in the messages table of the rows of a conversation
RowsOf(conversation_id) ==
    {i \in DOMAIN msgs : msgs[i].conversation_id = conversation_id}

\* the place of row i among the rows of its conversation, in append order
PlaceOf(i) ==
    Cardinality({j \in RowsOf(msgs[i].conversation_id) : j <= i})

C20_Reads ==
    \A c \in DOMAIN convs, count \in 0..(MaxMessages + 1) :
        LET r == get_recent_messages(msgs, c, count)
            total == Cardinality(RowsOf(c))
        IN  /\ Len(r) = Min(count, total)
            /\ \A k \in DOMAIN r :
                  \E i \in RowsOf(c) :
                      /\ PlaceOf(i) = total - Len(r) + k
                      /\ r[k] = [role |-> msgs[i].role, content |-> msgs[i].content]

C20_Appends ==
    msgs' # msgs =>
        /\ Len(msgs') = Len(msgs) + 1
        /\ SubSeq(msgs', 1, Len(msgs)) = msgs

(* C20: messages are appended at the end of the table and never changed,    *)
(* and for every conversation and count recent_messages returns the last    *)
(* min(count, total) messages appended to that conversation, none of any    *)
(* other, in the order they were appended, each with its role and content.  *)
C20_RecentRoundTrip == []C20_Reads /\ [][C20_Appends]_vars

\* three messages of conversation 1 with one of conversation 2 in between:
\* the two most recent of conversation 1 come back oldest first
C20_Witness ==
    /\ Len(msgs) = MaxMessages
    /\ Cardinality(RowsOf(1)) = 3 /\ msgs[3].conversation_id = 2
    /\ msgs[2].role = "user" /\ msgs[2].content = EnglishMessage
    /\ msgs[4].role = "assistant" /\ msgs[4].content = Reply
    /\ get_recent_messages(msgs, 1, 2) =
          <<[role |-> "user", content |-> EnglishMessage],
            [role |-> "assistant", content |-> Reply]>>

(***************************************************************************)
(* Properties of conversations named by a request (SpecChat).              *)
(***************************************************************************)
(* C21: a request whose conversation id names no stored conversation gets  *)
(* a new conversation owned by the requesting user, without an error; the  *)
(* messages the turn stores are stored under the new conversation, and the *)
(* response of the turn carries the new conversation's id.                 *)
C21_Step ==
    LET t == turns[1]
        u == turns'[1]
    IN  /\ ( /\ t.pc = "idle" /\ u.pc # "idle"
             /\ u.current_user = u.user
             /\ u.conversation_id # 0
             /\ u.conversation_id \notin DOMAIN convs )
           => /\ u.pc = "conv"
              /\ u.outcome = NoOutcome
              /\ convs' = Append(convs, u.user)
              /\ u.conv = Len(convs')
        /\ (t.pc # "idle" /\ u.pc # "idle")
           => /\ u.conv = t.conv
              /\ u.conversation_id = t.conversation_id
              /\ convs' = convs
        /\ Len(msgs') > Len(msgs)
           => /\ msgs'[Len(msgs')].conversation_id = t.conv
              /\ t.conv \in DOMAIN convs
              /\ convs[t.conv] = t.user
        /\ (t.pc = "agentdone" /\ u.outcome.kind = "response")
           => u.outcome.conversation_id = t.conv

C22_Original ==
    \A i \in DOMAIN tasks :
        ~tasks[i].is_recurring
            => /\ tasks[i].recurrence_pattern = NoText
               /\ tasks[i].recurrence_day_of_week = None
               /\ tasks[i].recurrence_day_of_month = None

(***************************************************************************)
(* Properties of input validation (Spec).                                  *)
(***************************************************************************)
\* the defects of an input, each as the schema names it
BadTitle(t) == Len(t) = 0 \/ Len(t) > 200 \/ t \in {" ", "  "}

BadDate(d) == d # NoDateStr /\ ~IsoParses(d)

BadAdd(a) ==
    \/ a.priority \notin Priorities
    \/ a.category # NoText /\ a.category \notin Categories
    \/ a.recurrence_pattern # NoText /\ a.recurrence_pattern \notin Patterns
    \/ BadDate(a.due_date)
    \/ BadDate(a.recurrence_end_date)
    \/ BadTitle(a.title)
    \/ a.recurrence_interval < 1

BadUpdate(a) ==
    \/ a.task_id <= 0
    \/ a.priority # NoText /\ a.priority \notin Priorities
    \/ a.category # NoText /\ a.category \notin Categories
    \/ BadDate(a.due_date)
    \/ a.title # NoText /\ BadTitle(a.title)

Rejected(r) == r.result = Failure("VALIDATION_ERROR") /\ r.tasks = tasks

(* C23: whatever the store holds, an add_task or update_task call with a   *)
(* priority, category or recurrence pattern outside its closed set, a date *)
(* that does not parse, a title that is blank or longer than 200           *)
(* characters or an interval below 1, and an update_task or complete_task  *)
(* call with a non-positive task id, returns the failure envelope with     *)
(* error_code VALIDATION_ERROR and leaves the store as it is; a step that  *)
(* ends in that envelope changes no task.                                  *)
C23_Rejects ==
    /\ \A a \in AddArgs : BadAdd(a) => Rejected(add_task_execute(tasks, a))
    /\ \A a \in UpdateArgs : BadUpdate(a) => Rejected(update_task_execute(tasks, a))
    /\ \A u \in Users, i \in TaskIds :
          i <= 0 => Rejected(complete_task_execute(tasks, u, i, now))

C23_Step ==
    (last' # last /\ last'.error_code = "VALIDATION_ERROR") => tasks' = tasks

C23_InvalidInputRejected == []C23_Rejects /\ [][C23_Step]_vars

\* u1 holds task 1 and the last complete_task call was rejected; update_task
\* calls of u1 on task 1 with each kind of defect, and add_task calls with
\* each kind of defect, are among the calls made in this state
C23_Witness ==
    /\ Len(tasks) >= 1
    /\ tasks[1].user_id = "u1"
    /\ last = Failure("VALIDATION_ERROR")
    /\ \A kind \in 1..4 :
          \E a \in UpdateArgs :
             /\ a.user_id = "u1" /\ a.task_id = 1
             /\ kind = 1 => a.priority = "urgent"
             /\ kind = 2 => a.category = "errands"
             /\ kind = 3 => BadDate(a.due_date)
             /\ kind = 4 => Len(a.title) > 200
             /\ Rejected(update_task_execute(tasks, a))
    /\ \A kind \in 1..4 :
          \E a \in AddArgs :
             /\ kind = 1 => a.recurrence_pattern = "yearly"
             /\ kind = 2 => a.recurrence_interval < 1
             /\ kind = 3 => a.title = "  "
             /\ kind = 4 => BadDate(a.recurrence_end_date)
             /\ Rejected(add_task_execute(tasks, a))

(***************************************************************************)
(* Properties of the moment a turn's messages are stored (SpecChat).       *)
(***************************************************************************)
\* the stages of a turn between storing its user message and storing its
\* assistant message
BetweenStores == {"stored", "agent", "model", "tools", "model2", "translate", "agentdone"}

(* C24 as stated: a turn appends to the stored messages only in its last   *)
(* step, after the final response was produced and translated.             *)
C24_OriginalStep == msgs' # msgs => turns[1].pc = "agentdone"

C24_UserRowStored ==
    LET t == turns[1]
    IN  t.pc \in BetweenStores => (msgs # <<>> /\ msgs[Len(msgs)] = UserRow(t))

C24_Step ==
    LET t == turns[1]
        u == turns'[1]
    IN  /\ msgs' # msgs
           => \/ t.pc = "conv" /\ msgs' = Append(msgs, UserRow(t))
              \/ /\ t.pc = "agentdone"
                 /\ msgs' = Append(msgs, AssistantRow(t, t.agent.response))
        /\ (t.pc \in BetweenStores /\ u.pc = "done" /\ u.outcome.kind = "http")
           => msgs' = msgs

C25_Original ==
    \A u \in Users, i \in DOMAIN tasks :
        LET r == delete_task_execute(tasks, u, i)
            listed == list_tasks_execute(r.tasks, u, "all").tasks
        IN  /\ (tasks[i].user_id = u /\ r.result.success)
               => /\ \A k \in DOMAIN listed : listed[k].task_id # i
                  /\ \A j \in DOMAIN tasks \ {i} :
                        j \in DOMAIN r.tasks /\ r.tasks[j] = tasks[j]
            /\ tasks[i].user_id # u => ~r.result.success

(***************************************************************************)
(* Properties of repeated completion (Spec).                               *)
(***************************************************************************)
(* C26: complete_task on a task that is already completed returns success  *)
(* with status completed, changes no task and spawns nothing; with calls   *)
(* made one after the other, no root has two instances for the same due    *)
(* date, however often a task was completed.                               *)
C26_NoOp ==
    \A u \in Users, i \in DOMAIN tasks :
        (tasks[i].user_id = u /\ tasks[i].completed)
            => LET r == complete_task_execute(tasks, u, i, now)
               IN  /\ r.tasks = tasks
                   /\ r.result.success
                   /\ r.result.status = "completed"
                   /\ r.result.next_task_id = None

C26_OneInstance ==
    \A j, k \in DOMAIN tasks :
        ( /\ j # k
          /\ tasks[j].parent_recurrence_id # None
          /\ tasks[j].parent_recurrence_id = tasks[k].parent_recurrence_id )
            => tasks[j].due_date # tasks[k].due_date

C26_Step ==
    (last' # last /\ last'.success /\ last'.message = "Task already completed")
        => /\ tasks' = tasks
           /\ tasks[last'.task_id].completed

C26_CompletedAgainIsNoOp == [](C26_NoOp /\ C26_OneInstance) /\ [][C26_Step]_vars

\* the daily task 1 was completed, its instance spawned, and completed again:
\* the second call answered "already completed" and task 1 has one instance
C26_Witness ==
    /\ last.success
    /\ last.message = "Task already completed"
    /\ last.task_id = 1
    /\ tasks[1].recurrence_pattern = "daily"
    /\ Len(tasks) < MaxTasks
    /\ Cardinality({j \in DOMAIN tasks : tasks[j].parent_recurrence_id = 1}) = 1

(***************************************************************************)
(* Properties of the REST completion endpoint (SpecRest).                  *)
(***************************************************************************)
(* C27: whatever the store holds, the REST endpoint and the complete_task  *)
(* tool, called for the same owner and task, leave the same store; and     *)
(* neither creates an instance when the task is already completed.         *)
C27_Original ==
    \A u \in Users, i \in TaskIds :
        LET rest == rest_complete_task(tasks, u, u, i, now)
            tool == complete_task_execute(tasks, u, i, now)
        IN  /\ rest.tasks = tool.tasks
            /\ (i \in DOMAIN tasks /\ tasks[i].completed)
                  => Len(rest.tasks) = Len(tasks) /\ Len(tool.tasks) = Len(tasks)

(***************************************************************************)
(* Properties of the history handed to the model (SpecChatPair).           *)
(***************************************************************************)
Without(h, k) == SubSeq(h, 1, k - 1) \o SubSeq(h, k + 1, Len(h))

\* the rows of a completion request between the system prompt and the new
\* user message
HandedHistory(messages) == SubSeq(messages, 2, Len(messages) - 1)

(* C28: in every turn, also when two turns on one conversation interleave, *)
(* the message list of the completion request ends with the turn's own     *)
(* user message, and the history before it is the loaded rows of the       *)
(* conversation, in their order, without the turn's own user message: that *)
(* message is not in the list a second time and no other row is left out   *)
(* in its place.                                                           *)
C28_Original ==
    \A w \in Workers :
        LET t == turns[w]
        IN  t.messages # <<>>
            => /\ t.messages[Len(t.messages)] = [role |-> "user", content |-> t.english]
               /\ \E k \in DOMAIN t.history :
                     /\ t.history[k] = [role |-> "user", content |-> t.message]
                     /\ HandedHistory(t.messages) = Without(t.history, k)

(***************************************************************************)
(* Properties of the recurrence end date (Spec).                           *)
(***************************************************************************)
(* C29 as stated: every spawned task that has a recurrence end date is due *)
(* not later than that end date.                                           *)
C29_Original ==
    \A j \in DOMAIN tasks :
        (tasks[j].parent_recurrence_id # None /\ tasks[j].recurrence_end_date # None)
            => tasks[j].due_date <= tasks[j].recurrence_end_date

(* C29, as the code has it: the end date bounds the time of the completion *)
(* that spawns, not the due date of the instance.  A completion of a task  *)
(* with an end date spawns only while the clock is before the end date,    *)
(* and a completion at or after the end date spawns nothing; the instance  *)
(* carries the end date of the completed task.                             *)
C29_Step ==
    \A i \in DOMAIN tasks :
        (Completes(i) /\ tasks[i].recurrence_end_date # None)
            => /\ Len(tasks') > Len(tasks)
                    => /\ now < tasks[i].recurrence_end_date
                       /\ tasks'[Len(tasks')].recurrence_end_date
                              = tasks[i].recurrence_end_date
               /\ now >= tasks[i].recurrence_end_date => Len(tasks') = Len(tasks)

C29_SpawnOnlyBeforeEnd == [][C29_Step]_vars

\* the monthly task due Jan 31 whose recurrence ends on Jan 2 was completed
\* on Jan 1: its instance is due on Feb 29, after the end date
C29_Witness ==
    /\ last.success
    /\ last.next_task_id \in DOMAIN tasks
    /\ LET next == tasks[last.next_task_id]
       IN  /\ next.recurrence_end_date = MkDate(2024, 1, 2)
           /\ next.due_date = MkDate(2024, 2, 29)
           /\ next.parent_recurrence_id = last.task_id

(***************************************************************************)
(* Properties of a chain of monthly instances (Spec).                      *)
(***************************************************************************)
\* the spawned monthly tasks without an explicit day of month
MonthlyInstances ==
    {j \in DOMAIN tasks :
        /\ tasks[j].parent_recurrence_id # None
        /\ tasks[j].recurrence_pattern = "monthly"
        /\ tasks[j].recurrence_day_of_month = None}

LastDayOfMonthOf(date) == DaysInMonth(YearOf(date), MonthOf(date))

(* C30 as stated: every instance of a monthly chain without an explicit    *)
(* day of month falls on min(day of the first task of the chain, last day  *)
(* of the instance's month).                                               *)
C30_Original ==
    \A j \in MonthlyInstances :
        DayOf(tasks[j].due_date) =
            Min(DayOf(tasks[tasks[j].parent_recurrence_id].due_date),
                LastDayOfMonthOf(tasks[j].due_date))

(* C30, as the code has it: each instance of a monthly chain without an    *)
(* explicit day of month falls, `interval` months after the task whose     *)
(* completion spawned it, on min(day of that task, last day of the         *)
(* instance's month); the day of month is taken from the previous instance *)
(* and never from the first, so once shortened it is not restored.         *)
C30_Step ==
    \A i \in DOMAIN tasks :
        ( /\ Completes(i)
          /\ Len(tasks') > Len(tasks)
          /\ tasks[i].recurrence_pattern = "monthly"
          /\ tasks[i].recurrence_day_of_month = None
          /\ tasks[i].due_date # None )
            => LET next == tasks'[Len(tasks')]
                   months == MonthOf(tasks[i].due_date) + tasks[i].recurrence_interval
               IN  /\ next.recurrence_day_of_month = None
                   /\ MonthOf(next.due_date) = ((months - 1) % 12) + 1
                   /\ DayOf(next.due_date) =
                         Min(DayOf(tasks[i].due_date), LastDayOfMonthOf(next.due_date))

C30_DayFollowsPreviousInstance == [][C30_Step]_vars

\* the chain started on Jan 31: Feb 29 (2024 is a leap year), then Mar 29
C30_Witness ==
    /\ Len(tasks) = 3
    /\ tasks[1].due_date = MkDate(2024, 1, 31)
    /\ tasks[2].due_date = MkDate(2024, 2, 29)
    /\ tasks[3].due_date = MkDate(2024, 3, 29)
    /\ MonthlyInstances = {2, 3}
    /\ tasks[2].parent_recurrence_id = 1
    /\ tasks[3].parent_recurrence_id = 1

====
